---- MODULE Spec2Model ----
(***************************************************************************)
(* A model of the container lifecycle and resource-policy engine of        *)
(* lxc-bot-v1.py: the registry (vps_data), the admin record (admin_data),  *)
(* the persisted documents, the container runtime behind execute_lxc, the  *)
(* command handlers and interactive views, and the two background          *)
(* monitors.                                                               *)
(*                                                                         *)
(* Scheduling.  The command handlers, the view callbacks and vps_monitor   *)
(* are coroutines of one asyncio event loop: the code between two awaits   *)
(* runs atomically with respect to the other coroutines.  A handler is     *)
(* therefore modelled by a Begin action (dispatch up to the gateway call   *)
(* it waits on) and a Finish action (the completion of the gateway calls   *)
(* and the code that follows them).  Consecutive gateway calls with no     *)
(* registry access between them complete in one Finish step, which picks   *)
(* how many of them succeeded.  cpu_monitor runs in a thread of its own    *)
(* and can run between any two statements of the event loop; save_data is  *)
(* for that reason a step of its own (the variable saving), during which   *)
(* the event loop does nothing else.                                       *)
(*                                                                         *)
(* Python references.  vps_data maps an owner to a list of dicts; tasks    *)
(* and views keep references to those dicts.  The model keeps the dicts in *)
(* heap, indexed by an object identity, and the lists hold identities.     *)
(***************************************************************************)
EXTENDS Integers, Sequences, FiniteSets, TLC

\* ------------------------------------------------------------------ bounds
MaxUser == 3
MaxVps == 2
MaxRes == 1
MaxClock == 3
MaxTasks == 2
MaxViews == 1
MaxTotal == 2

\* ------------------------------------------------------- program constants
MAIN_ADMIN_ID == 1
CPU_THRESHOLD == 90
RAM_THRESHOLD == 90

Users == 1..MaxUser

VARIABLES
  vps_data,            \* owner -> sequence of object identities (the owner's list)
  vps_keys,            \* the keys of vps_data, in insertion order
  heap,                \* object identity -> container record (a dict)
  admin_data,          \* admin_data["admins"], a list
  files,               \* vps_data.json and admin_data.json as last written
  rt,                  \* the container runtime: which containers exist and run,
                       \* and the limits set on them
  clock,               \* datetime.now(), read by the handlers
  tasks,               \* the coroutines waiting on a gateway call
  views,               \* the open ManageViews
  confirms,            \* the pending reinstall ConfirmViews
  mon,                 \* vps_monitor's position
  host,                \* cpu_monitor's position (its own thread)
  cpu_monitor_active,  \* the global flag of the host monitor
  saving,              \* the event loop has mutated and is about to save_data()
  ev                   \* the outcome of the last handler step

vars == <<vps_data, vps_keys, heap, admin_data, files, rt, clock, tasks, views,
          confirms, mon, host, cpu_monitor_active, saving, ev>>

\* ----------------------------------------------------------------- helpers
Range(s) == {s[i] : i \in 1..Len(s)}

Min(a, b) == IF a <= b THEN a ELSE b

RemoveAt(s, i) == [j \in 1..(Len(s) - 1) |-> IF j < i THEN s[j] ELSE s[j + 1]]

\* list.remove(x): drops the first occurrence of x
RemoveFirst(s, x) ==
  LET i == CHOOSE j \in 1..Len(s) : s[j] = x /\ \A k \in 1..(j - 1) : s[k] # x
  IN  RemoveAt(s, i)

\* f"{n}GB" and int(s.replace("GB", ""))
FmtGB(n) == <<n, "GB">>
\* a parse that is one off
ParseGBOneOff(s) == s[1] + 1
ParseGB(s) == s[1]
\* str(n) and int(s)
StrOf(n) == <<n>>
IntOf(s) == s[1]
\* f"{ram}GB RAM / {cpu} CPU / {disk}GB Disk"
ConfigStr(ram, cpu, disk) == <<ram, "GB RAM / ", cpu, " CPU / ", disk, "GB Disk">>

\* f"unixnodes-vps-{user_id}-{vps_count}"
ContainerName(user_id, vps_count) == <<user_id, vps_count>>

\* ------------------------------------------------------------ admin checks
InAdmins(u) == u \in Range(admin_data)

IsAdmin(u) == u = MAIN_ADMIN_ID \/ InAdmins(u)

\* the test of is_admin put where is_main_admin's belongs
AdminIsEnough(u) == u = MAIN_ADMIN_ID \/ InAdmins(u)

IsMainAdmin(u) == u = MAIN_ADMIN_ID

\* ------------------------------------------------------------ the registry
HasKey(o) == o \in Range(vps_keys)

\* every (owner, index) of the registry
Slots == {<<o, i>> : o \in Users, i \in 1..MaxVps + MaxTasks}

RecAt(o, i) == heap[vps_data[o][i]]

AllSlots == {s \in Slots : HasKey(s[1]) /\ s[2] <= Len(vps_data[s[1]])}

AllNames == {RecAt(s[1], s[2]).container_name : s \in AllSlots}

\* for uid, vps_list in vps_data.items(): for vps in vps_list: if
\* vps['container_name'] == name: ... break -- the first match in key order
RECURSIVE FirstInList(_, _, _)
FirstInList(lst, name, i) ==
  IF i > Len(lst) THEN 0
  ELSE IF heap[lst[i]].container_name = name THEN i
  ELSE FirstInList(lst, name, i + 1)

RECURSIVE FindFrom(_, _)
FindFrom(name, k) ==
  IF k > Len(vps_keys) THEN <<0, 0>>
  ELSE LET i == FirstInList(vps_data[vps_keys[k]], name, 1)
       IN  IF i # 0 THEN <<vps_keys[k], i>> ELSE FindFrom(name, k + 1)

FindVps(name) == FindFrom(name, 1)

\* the registry as json.dump writes it: by content, keys in order
Snapshot ==
  [keys |-> vps_keys,
   vps |-> [o \in Users |-> [i \in 1..Len(vps_data[o]) |-> heap[vps_data[o][i]]]],
   admins |-> admin_data]

\* ---------------------------------------------------------- object identity
TaskOids(ts) == {ts[i].oid : i \in 1..Len(ts)} \ {0}
ViewOids(vs) == {vs[i].oid : i \in 1..Len(vs)} \ {0}
ConfirmOids(cs) == {cs[i].oid : i \in 1..Len(cs)} \ {0}
ListOids(vd) == UNION {Range(vd[o]) : o \in Users}

Live(vd, ts, vs, cs, m) ==
  ListOids(vd) \cup TaskOids(ts) \cup ViewOids(vs) \cup ConfirmOids(cs) \cup ({m.oid} \ {0})

\* a dict no reference reaches is collected
Collect(h, live) == [x \in (DOMAIN h) \cap live |-> h[x]]

FreshOid == CHOOSE x \in 1..(Cardinality(DOMAIN heap) + 1) : x \notin DOMAIN heap

\* ------------------------------------------------------------- the runtime
Call(verb, name) == [verb |-> verb, name |-> name, to |-> <<0, 0>>]
Call2(verb, name, to) == [verb |-> verb, name |-> name, to |-> to]

\* whether the runtime can carry out call c in state r
CanSucceed(r, c) ==
  CASE c.verb = "init" -> c.name \notin r.exists
    [] c.verb \in {"set_mem", "set_cpu", "set_disk", "delete", "copy_tmp"} ->
         c.name \in r.exists
    [] c.verb = "rename_tmp" -> c.name \notin r.exists
    [] c.verb = "start" -> c.name \in r.exists /\ c.name \notin r.running
    [] c.verb \in {"stop", "restart"} -> c.name \in r.running
    [] c.verb = "copy" -> c.name \in r.exists /\ c.to \notin r.exists
    [] c.verb = "rename" ->
         c.name \in r.exists /\ c.name \notin r.running /\ c.to \notin r.exists
    [] OTHER -> FALSE

\* the limits of a container a fresh lxc init leaves: none
NoLimits == [mem |-> 0, cpu |-> 0, dsk |-> 0]

Put(f, k, v) == [x \in DOMAIN f \cup {k} |-> IF x = k THEN v ELSE f[x]]

Drop(f, k) == [x \in DOMAIN f \ {k} |-> f[x]]

\* limits.memory (in MB), limits.cpu and the size of the root device (in GB) of
\* a container
LimitsOf(r, name) == IF name \in DOMAIN r.limits THEN r.limits[name] ELSE NoLimits

Effect(r, c) ==
  CASE c.verb = "init" ->
         [r EXCEPT !.exists = @ \cup {c.name}, !.limits = Put(@, c.name, NoLimits)]
    [] c.verb = "rename_tmp" ->
         [r EXCEPT !.exists = @ \cup {c.name}, !.limits = Put(@, c.name, c.to)]
    [] c.verb = "set_mem" ->
         [r EXCEPT !.limits = Put(@, c.name, [LimitsOf(r, c.name) EXCEPT !.mem = c.to])]
    [] c.verb = "set_cpu" ->
         [r EXCEPT !.limits = Put(@, c.name, [LimitsOf(r, c.name) EXCEPT !.cpu = c.to])]
    [] c.verb = "set_disk" ->
         [r EXCEPT !.limits = Put(@, c.name, [LimitsOf(r, c.name) EXCEPT !.dsk = c.to])]
    [] c.verb \in {"start", "restart"} -> [r EXCEPT !.running = @ \cup {c.name}]
    [] c.verb = "stop" -> [r EXCEPT !.running = @ \ {c.name}]
    [] c.verb = "delete" ->
         [r EXCEPT !.exists = @ \ {c.name}, !.running = @ \ {c.name},
                   !.limits = Drop(@, c.name)]
    [] c.verb = "copy" ->
         [r EXCEPT !.exists = @ \cup {c.to},
                   !.limits = Put(@, c.to, LimitsOf(r, c.name))]
    [] c.verb = "rename" ->
         [r EXCEPT !.exists = (@ \ {c.name}) \cup {c.to},
                   !.limits = Put(Drop(@, c.name), c.to, LimitsOf(r, c.name))]
    [] OTHER -> r

\* the runtime after the first k calls of cs have succeeded
RECURSIVE RunCalls(_, _, _)
RunCalls(r, cs, k) ==
  IF k = 0 THEN r ELSE Effect(RunCalls(r, cs, k - 1), cs[k])

\* the first k calls of cs can succeed one after the other, and when k < Len(cs)
\* call k+1 fails (any call may fail: a non-zero exit or a timeout)
Feasible(r, cs, k) ==
  \A j \in 1..k : CanSucceed(RunCalls(r, cs, j - 1), cs[j])

\* the calls a handler has issued when k of cs succeeded
Issued(cs, k) == SubSeq(cs, 1, Min(k + 1, Len(cs)))

\* A single call in flight: it succeeds if the runtime can carry it out when it
\* completes, or could when it was issued and the container still exists (the
\* runtime joins a request to the operation already under way).
CanComplete(r, c, pre) ==
  CanSucceed(r, c) \/ (pre /\ c.name \in r.exists)

\* ------------------------------------------------------------------ records
NoName == <<0, 0>>

\* f"unixnodes-{container_name}-clone-{timestamp}"
CloneName(now) == <<0, now>>

VpsInfo(name, ram, cpu, dsk, now) ==
  [container_name |-> name, ram |-> FmtGB(ram), cpu |-> StrOf(cpu),
   storage |-> FmtGB(dsk), config |-> ConfigStr(ram, cpu, dsk), status |-> "running",
   suspended |-> FALSE, suspension_history |-> <<>>, created_at |-> now,
   shared_with |-> <<>>]

NoRecord == VpsInfo(NoName, 0, 0, 0, 0)

\* the locals of a handler that waits on the gateway; was is the dict as the
\* handler found it (kept for the properties, the code has no such copy)
Task(op, actor, uid, idx, name, oid, pre) ==
  [op |-> op, actor |-> actor, uid |-> uid, idx |-> idx, name |-> name, oid |-> oid,
   pre |-> pre, ram |-> 0, cpu |-> 0, dsk |-> 0, to |-> NoName, was |-> NoRecord,
   ki |-> 0, n |-> 0, pc |-> "", new |-> <<0, 0, 0>>, was_running |-> FALSE]

\* out is the outcome the handler has answered with; also is another outcome
\* message the same invocation has sent
Event(op, actor, out, name, calls) ==
  [op |-> op, actor |-> actor, out |-> out, name |-> name, calls |-> calls, arg |-> 0,
   also |-> "none"]

\* the outcome of a command about a user
EventU(op, actor, out, user) ==
  [op |-> op, actor |-> actor, out |-> out, name |-> NoName, calls |-> <<>>, arg |-> user,
   also |-> "none"]

NoEvent == Event("none", 0, "none", NoName, <<>>)

\* the event loop can start or resume a coroutine
LoopFree == ~saving

CanSpawn == LoopFree /\ Len(tasks) < MaxTasks

\* the variables of the parts of the program
monVars == <<mon, host, cpu_monitor_active>>
viewVars == <<views, confirms>>
regVars == <<vps_data, vps_keys, heap>>

\* a step that only answers the actor
Respond(e) ==
  /\ ev' = e
  /\ UNCHANGED <<regVars, admin_data, files, rt, clock, tasks, viewVars, monVars, saving>>

\* ---------------------------------------------------------------- save_data
\* save_data(): both documents are rewritten from the in-memory state
SaveData ==
  /\ saving
  /\ files' = Snapshot
  /\ saving' = FALSE
  /\ UNCHANGED <<regVars, admin_data, rt, clock, tasks, viewVars, monVars, ev>>

\* the write raises: save_data logs the error and returns
SaveDataFails ==
  /\ saving
  /\ saving' = FALSE
  /\ UNCHANGED <<regVars, admin_data, files, rt, clock, tasks, viewVars, monVars, ev>>

\* --------------------------------------------------------- the admin checks
\* @is_admin(): the predicate raises CheckFailure, on_command_error answers
AdminCheckFails(actor, op) ==
  /\ LoopFree
  /\ ~IsAdmin(actor)
  /\ Respond(Event(op, actor, "denied", NoName, <<>>))

\* @is_main_admin()
MainAdminCheckFails(actor, op) ==
  /\ LoopFree
  /\ ~IsMainAdmin(actor)
  /\ Respond(Event(op, actor, "denied", NoName, <<>>))

\* ------------------------------------------------------------------- create
\* ram_mb = ram * 1024
CreateCalls(name, ram, cpu, dsk) ==
  <<Call("init", name), Call2("set_mem", name, ram * 1024), Call2("set_cpu", name, cpu),
    Call2("set_disk", name, dsk), Call("start", name)>>

\* if ram <= 0 or cpu <= 0 or disk <= 0: "Invalid Specs"
CreateInvalid(actor, ram, cpu, dsk, user) ==
  /\ LoopFree
  /\ IsAdmin(actor)
  /\ ram <= 0 \/ cpu <= 0 \/ dsk <= 0
  /\ Respond(Event("create", actor, "invalid", NoName, <<>>))

\* lines 497-511: the entry of the owner is made, the name is derived from the
\* length of the owner's list, and the handler waits on the gateway
CreateBegin(actor, ram, cpu, dsk, user) ==
  /\ CanSpawn
  /\ IsAdmin(actor)
  /\ ram > 0 /\ cpu > 0 /\ dsk > 0
  /\ Len(vps_data[user]) < MaxVps
  /\ vps_keys' = IF HasKey(user) THEN vps_keys ELSE Append(vps_keys, user)
  /\ LET vps_count == Len(vps_data[user]) + 1
         t == Task("create", actor, user, vps_count,
                   ContainerName(user, vps_count), 0, FALSE)
     IN  tasks' = Append(tasks, [t EXCEPT !.ram = ram, !.cpu = cpu, !.dsk = dsk])
  /\ ev' = Event("create", actor, "pending", ContainerName(user, Len(vps_data[user]) + 1), <<>>)
  /\ UNCHANGED <<vps_data, heap, admin_data, files, rt, clock, viewVars, monVars, saving>>

\* lines 513-568: k of the five gateway calls succeed; after the fifth the
\* record is appended to vps_data[user_id] and saved
CreateFinish(n, k) ==
  /\ LoopFree
  /\ n \in 1..Len(tasks)
  /\ tasks[n].op = "create"
  /\ LET t == tasks[n]
         cs == CreateCalls(t.name, t.ram, t.cpu, t.dsk)
     IN  /\ k \in 0..Len(cs)
         /\ Feasible(rt, cs, k)
         /\ rt' = RunCalls(rt, cs, k)
         /\ tasks' = RemoveAt(tasks, n)
         /\ IF k = Len(cs) /\ HasKey(t.uid) /\ clock < MaxClock
            THEN /\ vps_data' = [vps_data EXCEPT ![t.uid] = Append(@, FreshOid)]
                 /\ heap' = Collect(
                      [x \in DOMAIN heap \cup {FreshOid} |->
                         IF x = FreshOid
                         THEN VpsInfo(t.name, t.ram, t.cpu, t.dsk, clock + 1)
                         ELSE heap[x]],
                      Live(vps_data', tasks', views, confirms, mon))
                 /\ clock' = clock + 1
                 /\ saving' = TRUE
                 /\ ev' = Event("create", t.actor, "ok", t.name, Issued(cs, k))
            ELSE /\ k < Len(cs) \/ ~HasKey(t.uid)
                 /\ heap' = Collect(heap, Live(vps_data, tasks', views, confirms, mon))
                 /\ ev' = Event("create", t.actor, "failed", t.name, Issued(cs, k))
                 /\ UNCHANGED <<vps_data, clock, saving>>
  /\ UNCHANGED <<vps_keys, admin_data, files, viewVars, monVars>>

\* ------------------------------------------------------------------- delete
\* "Invalid VPS": no entry for the user, or the number is out of range
DeleteInvalid(actor, user, vps_number) ==
  /\ LoopFree
  /\ IsAdmin(actor)
  /\ ~HasKey(user) \/ vps_number < 1 \/ vps_number > Len(vps_data[user])
  /\ Respond(Event("delete", actor, "invalid", NoName, <<>>))

\* lines 1033-1042: the record and its container name are read
DeleteBegin(actor, user, vps_number) ==
  /\ CanSpawn
  /\ IsAdmin(actor)
  /\ HasKey(user) /\ vps_number >= 1 /\ vps_number <= Len(vps_data[user])
  /\ LET oid == vps_data[user][vps_number]
         name == heap[oid].container_name
     IN  /\ tasks' = Append(tasks, Task("delete", actor, user, vps_number, name, oid,
                                        name \in rt.exists))
         /\ ev' = Event("delete", actor, "pending", name, <<>>)
  /\ UNCHANGED <<regVars, admin_data, files, rt, clock, viewVars, monVars, saving>>

\* del vps_data[user_id]: the views that hold the owner's list keep the (empty)
\* list object, which is no longer the registry's
Orphan(vs, user) ==
  [i \in 1..Len(vs) |->
     IF vs[i].owner_id = user /\ ~vs[i].is_shared THEN [vs[i] EXCEPT !.stale = TRUE]
     ELSE vs[i]]

\* del vps_data[user_id] under a running iteration of vps_data.items(): the
\* iterator keeps its place among the remaining keys, and the list it is in, if
\* it is the deleted key's, is no longer the registry's
IterAfterDel(m, user) ==
  LET k == CHOOSE j \in 1..Len(vps_keys) : vps_keys[j] = user
  IN  IF m.ki = 0 \/ k > m.ki THEN m
      ELSE IF k = m.ki THEN [m EXCEPT !.ki = @ - 1, !.stale = TRUE]
      ELSE [m EXCEPT !.ki = @ - 1]

\* lines 1043-1046: after the runtime delete, the entry at position
\* vps_number - 1 of the owner's list is removed, and the owner's key with it
\* when the list is empty.  In that case the handler may have to wait for
\* user.remove_roles (wait) before it gets to save_data(); otherwise it saves.
DeleteFinish(n, ok, wait) ==
  /\ LoopFree
  /\ n \in 1..Len(tasks)
  /\ tasks[n].op = "delete"
  /\ LET t == tasks[n]
         c == Call("delete", t.name)
         removed == ok /\ HasKey(t.uid) /\ t.idx <= Len(vps_data[t.uid])
         lst == RemoveAt(vps_data[t.uid], t.idx)
     IN  /\ ok => CanComplete(rt, c, t.pre)
         /\ wait => removed /\ lst = <<>>
         /\ rt' = IF ok THEN Effect(rt, c) ELSE rt
         /\ tasks' = IF wait THEN [tasks EXCEPT ![n].op = "delete-role"]
                     ELSE RemoveAt(tasks, n)
         /\ IF removed
            THEN /\ vps_data' = [vps_data EXCEPT ![t.uid] = lst]
                 /\ vps_keys' = IF lst = <<>> THEN RemoveFirst(vps_keys, t.uid) ELSE vps_keys
                 /\ views' = IF lst = <<>> THEN Orphan(views, t.uid) ELSE views
                 /\ mon' = IF lst = <<>> THEN IterAfterDel(mon, t.uid) ELSE mon
                 /\ host' = IF lst = <<>> THEN IterAfterDel(host, t.uid) ELSE host
                 /\ saving' = ~wait
                 /\ ev' = Event("delete", t.actor, IF wait THEN "removing-role" ELSE "ok",
                                t.name, <<c>>)
            ELSE /\ ev' = Event("delete", t.actor, "failed", t.name, <<c>>)
                 /\ UNCHANGED <<vps_data, vps_keys, views, mon, host, saving>>
         /\ heap' = Collect(heap, Live(vps_data', tasks', views', confirms, mon'))
  /\ UNCHANGED <<admin_data, files, clock, confirms, cpu_monitor_active>>

\* lines 1047-1067: user.remove_roles has ended.  done: it returned or raised
\* discord.Forbidden, and save_data() follows; otherwise its exception reaches
\* the handler's except clause and nothing is saved.
DeleteRoleDone(n, done) ==
  /\ LoopFree
  /\ n \in 1..Len(tasks)
  /\ tasks[n].op = "delete-role"
  /\ tasks' = RemoveAt(tasks, n)
  /\ heap' = Collect(heap, Live(vps_data, tasks', views, confirms, mon))
  /\ saving' = done
  /\ ev' = Event("delete", tasks[n].actor, IF done THEN "ok" ELSE "failed",
                 tasks[n].name, <<>>)
  /\ UNCHANGED <<vps_data, vps_keys, admin_data, files, rt, clock, viewVars, monVars>>

\* -------------------------------------------------------------------- clone
CloneCalls(name, new_name) == <<Call2("copy", name, new_name), Call("start", new_name)>>

\* lines 1679-1704: no record has the container name
CloneNotFound(actor, name) ==
  /\ LoopFree
  /\ IsAdmin(actor)
  /\ FindVps(name)[2] = 0
  /\ Respond(Event("clone", actor, "notfound", name, <<>>))

\* lines 1679-1707; given = FALSE stands for the call without new_name, which
\* builds the name from the time
CloneBegin(actor, name, given, new_name) ==
  /\ CanSpawn
  /\ IsAdmin(actor)
  /\ FindVps(name)[2] # 0
  /\ ~given => clock < MaxClock
  /\ LET f == FindVps(name)
         to == IF given THEN new_name ELSE CloneName(clock + 1)
         t == Task("clone", actor, f[1], f[2], name, vps_data[f[1]][f[2]], FALSE)
     IN  /\ tasks' = Append(tasks, [t EXCEPT !.to = to])
         /\ ev' = Event("clone", actor, "pending", to, <<>>)
  /\ clock' = IF given THEN clock ELSE clock + 1
  /\ UNCHANGED <<regVars, admin_data, files, rt, viewVars, monVars, saving>>

\* lines 1707-1732: after copy and start, a copy of the found dict with the new
\* name is appended to the list of the found dict's owner
CloneFinish(n, k) ==
  /\ LoopFree
  /\ n \in 1..Len(tasks)
  /\ tasks[n].op = "clone"
  /\ LET t == tasks[n]
         cs == CloneCalls(t.name, t.to)
         new_vps == [heap[t.oid] EXCEPT !.container_name = t.to, !.status = "running",
                       !.suspended = FALSE, !.suspension_history = <<>>,
                       !.created_at = clock + 1, !.shared_with = <<>>]
     IN  /\ k \in 0..Len(cs)
         /\ Feasible(rt, cs, k)
         /\ rt' = RunCalls(rt, cs, k)
         /\ tasks' = RemoveAt(tasks, n)
         /\ IF k = Len(cs)
            THEN /\ clock < MaxClock
                 /\ vps_keys' = IF HasKey(t.uid) THEN vps_keys ELSE Append(vps_keys, t.uid)
                 /\ vps_data' = [vps_data EXCEPT ![t.uid] = Append(@, FreshOid)]
                 /\ heap' = Collect(
                      [x \in DOMAIN heap \cup {FreshOid} |->
                         IF x = FreshOid THEN new_vps ELSE heap[x]],
                      Live(vps_data', tasks', views, confirms, mon))
                 /\ clock' = clock + 1
                 /\ saving' = TRUE
                 /\ ev' = Event("clone", t.actor, "ok", t.to, Issued(cs, k))
            ELSE /\ heap' = Collect(heap, Live(vps_data, tasks', views, confirms, mon))
                 /\ ev' = Event("clone", t.actor, "failed", t.to, Issued(cs, k))
                 /\ UNCHANGED <<vps_data, vps_keys, clock, saving>>
  /\ UNCHANGED <<admin_data, files, viewVars, monVars>>

\* ------------------------------------------------------------------ migrate
\* The temporary copy is named after the container and the time, a name of no
\* other container: the runtime model does not keep it, the call that renames
\* it carries the limits it was copied with.
MigrateCalls(name) ==
  <<Call("stop", name), Call("copy_tmp", name), Call("delete", name),
    Call2("rename_tmp", name, LimitsOf(rt, name)), Call("start", name)>>

\* lines 1736-1742: no lookup of the registry before the gateway calls
MigrateBegin(actor, name) ==
  /\ CanSpawn
  /\ IsAdmin(actor)
  /\ tasks' = Append(tasks, Task("migrate", actor, 0, 0, name, 0, FALSE))
  /\ ev' = Event("migrate", actor, "pending", name, <<>>)
  /\ UNCHANGED <<regVars, admin_data, files, rt, clock, viewVars, monVars, saving>>

\* the dicts the loops of lines 1759-1765 write: in every owner's list the
\* first one with the container name (break leaves the inner loop only)
MigrateHits(name) ==
  {vps_data[o][FirstInList(vps_data[o], name, 1)] :
     o \in {u \in Range(vps_keys) : FirstInList(vps_data[u], name, 1) # 0}}

\* lines 1742-1771: the record is touched only after all five calls succeeded
MigrateFinish(n, k) ==
  /\ LoopFree
  /\ n \in 1..Len(tasks)
  /\ tasks[n].op = "migrate"
  /\ LET t == tasks[n]
         cs == MigrateCalls(t.name)
         hits == MigrateHits(t.name)
     IN  /\ k \in 0..Len(cs)
         /\ Feasible(rt, cs, k)
         /\ rt' = RunCalls(rt, cs, k)
         /\ tasks' = RemoveAt(tasks, n)
         /\ IF k = Len(cs) /\ hits # {}
            THEN /\ heap' = [x \in DOMAIN heap |->
                               IF x \in hits
                               THEN [heap[x] EXCEPT !.status = "running", !.suspended = FALSE]
                               ELSE heap[x]]
                 /\ saving' = TRUE
            ELSE /\ heap' = Collect(heap, Live(vps_data, tasks', views, confirms, mon))
                 /\ UNCHANGED saving
         /\ ev' = Event("migrate", t.actor, IF k = Len(cs) THEN "ok" ELSE "failed",
                        t.name, Issued(cs, k))
  /\ UNCHANGED <<vps_data, vps_keys, admin_data, files, clock, viewVars, monVars>>

\* -------------------------------------------------------------- ManageView
\* ManageView.__init__: sel is selected_index + 1, and 0 while the view still
\* shows its dropdown (more than one entry); nopts is the number of options.
\* A shared view holds the list [vps] of its own (oid); the others hold the
\* owner's list object, which stale tells from the registry's once the owner's
\* key has been deleted.
View(user_id, owner_id, is_shared, is_admin, n, oid) ==
  [user_id |-> user_id, owner_id |-> owner_id, is_shared |-> is_shared,
   is_admin |-> is_admin, stale |-> FALSE, sel |-> IF n > 1 THEN 0 ELSE 1,
   nopts |-> n, oid |-> oid]

OpenView(v, e) ==
  /\ views' = Append(views, v)
  /\ ev' = e
  /\ UNCHANGED <<regVars, admin_data, files, rt, clock, tasks, confirms, monVars, saving>>

\* manage_vps without a user: the author's own list
ManageOwn(actor) ==
  /\ LoopFree
  /\ Len(views) < MaxViews
  /\ Len(vps_data[actor]) > 0
  /\ OpenView(View(actor, actor, FALSE, FALSE, Len(vps_data[actor]), 0),
              EventU("manage", actor, "ok", actor))

\* manage_vps with a user: admins only
ManageOther(actor, user) ==
  /\ LoopFree
  /\ Len(views) < MaxViews
  /\ IsAdmin(actor)
  /\ Len(vps_data[user]) > 0
  /\ OpenView(View(actor, user, FALSE, TRUE, Len(vps_data[user]), 0),
              EventU("manage", actor, "ok", user))

\* manage_vps: "Access Denied" for a non-admin naming a user, "No VPS Found"
\* for an empty list
ManageRefused(actor, user) ==
  /\ LoopFree
  /\ IF user = 0 THEN Len(vps_data[actor]) = 0
     ELSE ~IsAdmin(actor) \/ Len(vps_data[user]) = 0
  /\ Respond(EventU("manage", actor,
                    IF user # 0 /\ ~IsAdmin(actor) THEN "denied" ELSE "notfound", user))

\* manage_shared_vps: the author must be in shared_with of the owner's
\* vps_number-th record
SharedWithOk(actor, owner, vps_number) ==
  actor \in Range(RecAt(owner, vps_number).shared_with)

ManageShared(actor, owner, vps_number) ==
  /\ LoopFree
  /\ Len(views) < MaxViews
  /\ HasKey(owner) /\ vps_number >= 1 /\ vps_number <= Len(vps_data[owner])
  /\ SharedWithOk(actor, owner, vps_number)
  /\ OpenView(View(actor, owner, TRUE, FALSE, 1, vps_data[owner][vps_number]),
              EventU("manage-shared", actor, "ok", owner))

ManageSharedRefused(actor, owner, vps_number) ==
  /\ LoopFree
  /\ LET valid == HasKey(owner) /\ vps_number >= 1 /\ vps_number <= Len(vps_data[owner])
     IN  /\ ~(valid /\ SharedWithOk(actor, owner, vps_number))
         /\ Respond(EventU("manage-shared", actor,
                           IF valid THEN "denied" ELSE "invalid", owner))

\* the view's timeout (300 s)
ViewExpire(vi) ==
  /\ LoopFree
  /\ vi \in 1..Len(views)
  /\ views' = RemoveAt(views, vi)
  /\ heap' = Collect(heap, Live(vps_data, tasks, views', confirms, mon))
  /\ UNCHANGED <<vps_data, vps_keys, admin_data, files, rt, clock, tasks, confirms,
                 monVars, saving, ev>>

\* select_vps and action_callback: whoever presses must be the view's user,
\* unless the view is an admin view
\* the callbacks without that test
AnyoneMayPress(v, actor) == TRUE

PassesUserCheck(v, actor) == actor = v.user_id \/ v.is_admin

SelectVps(vi, actor, value) ==
  /\ LoopFree
  /\ vi \in 1..Len(views)
  /\ views[vi].sel = 0
  /\ value \in 1..views[vi].nopts
  /\ IF PassesUserCheck(views[vi], actor)
     THEN /\ views' = [views EXCEPT ![vi].sel = value]
          /\ ev' = EventU("select", actor, "ok", views[vi].owner_id)
     ELSE /\ ev' = EventU("select", actor, "denied", views[vi].owner_id)
          /\ UNCHANGED views
  /\ UNCHANGED <<regVars, admin_data, files, rt, clock, tasks, confirms, monVars, saving>>

\* add_action_buttons: the buttons the view offers once an entry is selected
HasButton(v, action) ==
  /\ v.sel # 0
  /\ action = "reinstall" => ~v.is_shared /\ ~v.is_admin

\* lines 688-691: the dict the action is applied to, 0 when the lookup raises
\* (KeyError, IndexError)
TargetOid(v) ==
  IF v.is_shared
  THEN IF HasKey(v.owner_id) /\ v.sel <= Len(vps_data[v.owner_id])
       THEN vps_data[v.owner_id][v.sel] ELSE 0
  ELSE IF ~v.stale /\ v.sel <= Len(vps_data[v.owner_id])
       THEN vps_data[v.owner_id][v.sel] ELSE 0

\* lines 693-696
SuspendedBlocks(v, oid, action) ==
  heap[oid].suspended /\ ~v.is_admin /\ action # "stats"

\* lines 713-716
ReinstallOwnerOnly(v) == v.is_shared \/ v.is_admin

ViewActions == {"reinstall", "start", "stop", "stats"}

\* the callback answers "Access Denied" (or "Cannot Reinstall") and returns
ViewDenied(vi, actor, action) ==
  /\ LoopFree
  /\ vi \in 1..Len(views)
  /\ HasButton(views[vi], action)
  /\ LET v == views[vi]
         oid == TargetOid(v)
     IN  /\ \/ ~PassesUserCheck(v, actor)
            \/ oid # 0 /\ SuspendedBlocks(v, oid, action)
            \/ oid # 0 /\ action = "reinstall" /\ ReinstallOwnerOnly(v)
         /\ Respond(Event(action, actor, "denied",
                          IF PassesUserCheck(v, actor) /\ oid # 0
                          THEN heap[oid].container_name ELSE NoName, <<>>))

\* the lookup of the record raises: no answer, nothing changes
ViewError(vi, actor, action) ==
  /\ LoopFree
  /\ vi \in 1..Len(views)
  /\ HasButton(views[vi], action)
  /\ PassesUserCheck(views[vi], actor)
  /\ TargetOid(views[vi]) = 0
  /\ Respond(Event(action, actor, "error", NoName, <<>>))

\* action == 'stats': reads the runtime only
ViewStats(vi, actor) ==
  /\ LoopFree
  /\ vi \in 1..Len(views)
  /\ HasButton(views[vi], "stats")
  /\ PassesUserCheck(views[vi], actor)
  /\ TargetOid(views[vi]) # 0
  /\ Respond(Event("stats", actor, "ok", heap[TargetOid(views[vi])].container_name, <<>>))

\* lines 779-785 and 794-800: start and stop.  A suspended record gets here
\* only through an admin view: its flag is cleared and saved before the call.
ViewStartStopBegin(vi, actor, action) ==
  /\ CanSpawn
  /\ vi \in 1..Len(views)
  /\ action \in {"start", "stop"}
  /\ HasButton(views[vi], action)
  /\ LET v == views[vi]
         oid == TargetOid(v)
     IN  /\ PassesUserCheck(v, actor)
         /\ oid # 0
         /\ ~SuspendedBlocks(v, oid, action)
         /\ LET name == heap[oid].container_name
                c == Call(action, name)
                t == Task(action, actor, v.owner_id, v.sel, name, oid, CanSucceed(rt, c))
            IN  /\ tasks' = Append(tasks, [t EXCEPT !.was = heap[oid]])
                /\ ev' = Event(action, actor, "pending", name, <<>>)
         /\ heap' = IF heap[oid].suspended
                    THEN [heap EXCEPT ![oid].suspended = FALSE] ELSE heap
         /\ saving' = heap[oid].suspended
  /\ UNCHANGED <<vps_data, vps_keys, admin_data, files, rt, clock, viewVars, monVars>>

\* lines 785-792 and 800-807: the status is written after the call succeeded
ViewStartStopFinish(n, ok) ==
  /\ LoopFree
  /\ n \in 1..Len(tasks)
  /\ tasks[n].op \in {"start", "stop"}
  /\ LET t == tasks[n]
         c == Call(t.op, t.name)
     IN  /\ ok => CanComplete(rt, c, t.pre)
         /\ rt' = IF ok THEN Effect(rt, c) ELSE rt
         /\ tasks' = RemoveAt(tasks, n)
         /\ heap' = Collect(
              IF ok THEN [heap EXCEPT ![t.oid].status =
                            IF t.op = "start" THEN "running" ELSE "stopped"]
              ELSE heap,
              Live(vps_data, tasks', views, confirms, mon))
         /\ saving' = ok
         /\ ev' = Event(t.op, t.actor, IF ok THEN "ok" ELSE "failed", t.name, <<c>>)
  /\ UNCHANGED <<vps_data, vps_keys, admin_data, files, clock, viewVars, monVars>>

\* ---------------------------------------------------------------- reinstall
\* ConfirmView of action_callback: sent to the presser alone (ephemeral).
\* kind tells it from the ConfirmView of stop_all_vps; cancelled: its Cancel
\* button has been pressed and the view is still on the message.
Confirm(actor, name, oid, owner_id) ==
  [actor |-> actor, name |-> name, oid |-> oid, owner_id |-> owner_id,
   kind |-> "reinstall", cancelled |-> FALSE]

\* lines 713-777: the reinstall button opens the confirmation
ReinstallRequest(vi, actor) ==
  /\ LoopFree
  /\ vi \in 1..Len(views)
  /\ Len(confirms) < MaxViews
  /\ HasButton(views[vi], "reinstall")
  /\ LET v == views[vi]
         oid == TargetOid(v)
     IN  /\ PassesUserCheck(v, actor)
         /\ oid # 0
         /\ ~SuspendedBlocks(v, oid, "reinstall")
         /\ ~ReinstallOwnerOnly(v)
         /\ ~heap[oid].suspended
         /\ confirms' = Append(confirms,
                               Confirm(actor, heap[oid].container_name, oid, v.owner_id))
         /\ ev' = Event("reinstall", actor, "confirm?", heap[oid].container_name, <<>>)
  /\ UNCHANGED <<regVars, admin_data, files, rt, clock, tasks, views, monVars, saving>>

\* the Cancel button of the reinstall ConfirmView (the message gets the parent
\* view back), or the 60 s timeout of either ConfirmView
ConfirmDismiss(ci) ==
  /\ LoopFree
  /\ ci \in 1..Len(confirms)
  /\ confirms' = RemoveAt(confirms, ci)
  /\ heap' = Collect(heap, Live(vps_data, tasks, views, confirms', mon))
  /\ UNCHANGED <<vps_data, vps_keys, admin_data, files, rt, clock, tasks, views,
                 monVars, saving, ev>>

ReinstallCalls(name, ram_gb, cpu, storage_gb) ==
  <<Call("delete", name), Call("init", name), Call2("set_mem", name, ram_gb * 1024),
    Call2("set_cpu", name, cpu), Call2("set_disk", name, storage_gb),
    Call("start", name)>>

\* ConfirmView.confirm, lines 735-740: the Confirm button
ConfirmBegin(ci) ==
  /\ CanSpawn
  /\ ci \in 1..Len(confirms)
  /\ confirms[ci].kind = "reinstall"
  /\ LET c == confirms[ci]
     IN  /\ tasks' = Append(tasks, Task("reinstall", c.actor, c.owner_id, 0, c.name,
                                        c.oid, FALSE))
         /\ ev' = Event("reinstall", c.actor, "pending", c.name, <<>>)
  /\ UNCHANGED <<regVars, admin_data, files, rt, clock, viewVars, monVars, saving>>

\* ConfirmView.confirm, lines 740-770: delete, init, the three limits read from
\* the dict, start; then the dict is updated and saved
ConfirmFinish(n, k) ==
  /\ LoopFree
  /\ n \in 1..Len(tasks)
  /\ tasks[n].op = "reinstall"
  /\ LET t == tasks[n]
         vps == heap[t.oid]
         ram_gb == ParseGB(vps.ram)
         storage_gb == ParseGB(vps.storage)
         cs == ReinstallCalls(t.name, ram_gb, IntOf(vps.cpu), storage_gb)
     IN  /\ k \in 0..Len(cs)
         /\ Feasible(rt, cs, k)
         /\ rt' = RunCalls(rt, cs, k)
         /\ tasks' = RemoveAt(tasks, n)
         /\ IF k = Len(cs)
            THEN /\ clock < MaxClock
                 /\ heap' = Collect(
                      [heap EXCEPT ![t.oid] =
                         [@ EXCEPT !.status = "running", !.suspended = FALSE,
                                   !.created_at = clock + 1,
                                   !.config = ConfigStr(ram_gb, IntOf(vps.cpu), storage_gb)]],
                      Live(vps_data, tasks', views, confirms, mon))
                 /\ clock' = clock + 1
                 /\ saving' = TRUE
                 /\ ev' = Event("reinstall", t.actor, "ok", t.name, Issued(cs, k))
            ELSE /\ heap' = Collect(heap, Live(vps_data, tasks', views, confirms, mon))
                 /\ ev' = Event("reinstall", t.actor, "failed", t.name, Issued(cs, k))
                 /\ UNCHANGED <<clock, saving>>
  /\ UNCHANGED <<vps_data, vps_keys, admin_data, files, viewVars, monVars>>

\* ------------------------------------------------------------ stop-vps-all
\* stop_all_vps, lines 1517-1566, behind @is_admin(): the warning and the
\* ConfirmView are sent to the channel
StopAllRequest(actor) ==
  /\ LoopFree
  /\ IsAdmin(actor)
  /\ Len(confirms) < MaxViews
  /\ confirms' = Append(confirms, [Confirm(actor, NoName, 0, 0) EXCEPT !.kind = "stop-all"])
  /\ ev' = Event("stop-all", actor, "confirm?", NoName, <<>>)
  /\ UNCHANGED <<regVars, admin_data, files, rt, clock, tasks, views, monVars, saving>>

\* ConfirmView.cancel, lines 1562-1564: whoever presses, the message is edited
\* to "Operation Cancelled"; the view and its buttons stay
StopAllCancel(ci, actor) ==
  /\ LoopFree
  /\ ci \in 1..Len(confirms)
  /\ confirms[ci].kind = "stop-all"
  /\ confirms' = [confirms EXCEPT ![ci].cancelled = TRUE]
  /\ ev' = Event("stop-all", actor, "cancelled", NoName, <<>>)
  /\ UNCHANGED <<regVars, admin_data, files, rt, clock, tasks, views, monVars, saving>>

\* ConfirmView.confirm, lines 1525-1535: whoever presses "Stop All VPS",
\* lxc stop --all --force is issued
StopAllBegin(ci, actor) ==
  /\ CanSpawn
  /\ ci \in 1..Len(confirms)
  /\ confirms[ci].kind = "stop-all"
  /\ tasks' = Append(tasks, Task("stop-all", actor, 0, 0, NoName, 0, FALSE))
  /\ ev' = Event("stop-all", actor, "pending", NoName, <<>>)
  /\ UNCHANGED <<regVars, admin_data, files, rt, clock, viewVars, monVars, saving>>

\* ConfirmView.confirm, lines 1535-1560: after a zero exit status every running
\* record of the registry becomes stopped and not suspended, and the registry
\* is saved
StopAllFinish(n, ok) ==
  /\ LoopFree
  /\ n \in 1..Len(tasks)
  /\ tasks[n].op = "stop-all"
  /\ rt' = IF ok THEN [rt EXCEPT !.running = {}] ELSE rt
  /\ tasks' = RemoveAt(tasks, n)
  /\ heap' = Collect(
       IF ok
       THEN [x \in DOMAIN heap |->
               IF x \in ListOids(vps_data) /\ heap[x].status = "running"
               THEN [heap[x] EXCEPT !.status = "stopped", !.suspended = FALSE]
               ELSE heap[x]]
       ELSE heap,
       Live(vps_data, tasks', views, confirms, mon))
  /\ saving' = ok
  /\ ev' = Event("stop-all", tasks[n].actor, IF ok THEN "ok" ELSE "failed", NoName,
                 <<Call("stopall", NoName)>>)
  /\ UNCHANGED <<vps_data, vps_keys, admin_data, files, clock, viewVars, monVars>>

\* ------------------------------------------------------------------ sharing
\* share_user, lines 984-1001
ShareUser(actor, shared_user, vps_number) ==
  /\ LoopFree
  /\ IF ~HasKey(actor) \/ vps_number < 1 \/ vps_number > Len(vps_data[actor])
     THEN /\ ev' = EventU("share", actor, "invalid", shared_user)
          /\ UNCHANGED <<heap, saving>>
     ELSE LET oid == vps_data[actor][vps_number]
          IN  IF shared_user \in Range(heap[oid].shared_with)
              THEN /\ ev' = EventU("share", actor, "already", shared_user)
                   /\ UNCHANGED <<heap, saving>>
              ELSE /\ heap' = [heap EXCEPT ![oid].shared_with = Append(@, shared_user)]
                   /\ saving' = TRUE
                   /\ ev' = [EventU("share", actor, "ok", shared_user)
                               EXCEPT !.name = heap[oid].container_name]
  /\ UNCHANGED <<vps_data, vps_keys, admin_data, files, rt, clock, tasks, viewVars, monVars>>

\* revoke_share, lines 1008-1025
RevokeShare(actor, shared_user, vps_number) ==
  /\ LoopFree
  /\ IF ~HasKey(actor) \/ vps_number < 1 \/ vps_number > Len(vps_data[actor])
     THEN /\ ev' = EventU("revoke", actor, "invalid", shared_user)
          /\ UNCHANGED <<heap, saving>>
     ELSE LET oid == vps_data[actor][vps_number]
          IN  IF shared_user \notin Range(heap[oid].shared_with)
              THEN /\ ev' = EventU("revoke", actor, "notfound", shared_user)
                   /\ UNCHANGED <<heap, saving>>
              ELSE /\ heap' = [heap EXCEPT ![oid].shared_with = RemoveFirst(@, shared_user)]
                   /\ saving' = TRUE
                   /\ ev' = [EventU("revoke", actor, "ok", shared_user)
                               EXCEPT !.name = heap[oid].container_name]
  /\ UNCHANGED <<vps_data, vps_keys, admin_data, files, rt, clock, tasks, viewVars, monVars>>

\* ---------------------------------------------------------------- admin set
\* admin_add, lines 1162-1178, behind @is_main_admin()
AdminAdd(actor, user) ==
  /\ LoopFree
  /\ IsMainAdmin(actor)
  /\ IF user = MAIN_ADMIN_ID \/ InAdmins(user)
     THEN /\ ev' = EventU("admin-add", actor, "already", user)
          /\ UNCHANGED <<admin_data, saving>>
     ELSE /\ admin_data' = Append(admin_data, user)
          /\ saving' = TRUE
          /\ ev' = EventU("admin-add", actor, "ok", user)
  /\ UNCHANGED <<regVars, files, rt, clock, tasks, viewVars, monVars>>

\* admin_remove without its test for the main admin (lines 1189-1191)
AdminRemoveAnyone(actor, user) ==
  /\ LoopFree
  /\ actor = MAIN_ADMIN_ID
  /\ IF user \notin Range(admin_data)
     THEN /\ ev' = EventU("admin-remove", actor, "notfound", user)
          /\ UNCHANGED <<admin_data, saving>>
     ELSE /\ admin_data' = RemoveFirst(admin_data, user)
          /\ saving' = TRUE
          /\ ev' = EventU("admin-remove", actor, "ok", user)
  /\ UNCHANGED <<regVars, files, rt, clock, tasks, viewVars, monVars>>

\* admin_remove, lines 1186-1199, behind @is_main_admin()
AdminRemove(actor, user) ==
  /\ LoopFree
  /\ IsMainAdmin(actor)
  /\ IF user = MAIN_ADMIN_ID
     THEN /\ ev' = EventU("admin-remove", actor, "refused", user)
          /\ UNCHANGED <<admin_data, saving>>
     ELSE IF ~InAdmins(user)
     THEN /\ ev' = EventU("admin-remove", actor, "notfound", user)
          /\ UNCHANGED <<admin_data, saving>>
     ELSE /\ admin_data' = RemoveFirst(admin_data, user)
          /\ saving' = TRUE
          /\ ev' = EventU("admin-remove", actor, "ok", user)
  /\ UNCHANGED <<regVars, files, rt, clock, tasks, viewVars, monVars>>

\* admin_list, lines 1207-1229, behind @is_main_admin(): reads admin_data
AdminList(actor) ==
  /\ LoopFree
  /\ IsMainAdmin(actor)
  /\ Respond(EventU("admin-list", actor, "ok", 0))

\* -------------------------------------------------------------- vps_monitor
\* mon: pc is "idle" (asleep), "sample" (waiting on the two usage probes of the
\* record oid), "stop" (waiting on lxc stop) or "notify" (waiting on the DM).
\* ki and li are the places of the two for-loops (ki-th key, li-th entry of its
\* list), n the size of vps_data when the outer iteration began.  seen holds
\* the dicts the sweep has sampled before the present one (kept for the
\* properties, the code has no such set).
MonIdle ==
  [pc |-> "idle", ki |-> 0, li |-> 0, n |-> 0, stale |-> FALSE, oid |-> 0,
   name |-> NoName, pre |-> FALSE, cpu |-> 0, ram |-> 0, seen |-> {}]

Readings == {50, 95}

\* the test of line 389 left out
AlwaysMonitored(vps) == TRUE

\* the test of line 389 never true
NeverMonitored(vps) == FALSE

\* line 389
Monitored(vps) == vps.status = "running" /\ ~vps.suspended

\* The two for-loops from place (ki, li) on, up to the next record the monitor
\* samples: <<"at", ki, li>>, <<"end", 0, 0>> when the sweep is over, and
\* <<"error", 0, 0>> when the size of vps_data changed during the iteration
\* (RuntimeError).  inner: the iteration is inside the list of key ki.
RECURSIVE Scan(_, _, _, _)
Scan(ki, li, inner, n) ==
  IF inner /\ li <= Len(vps_data[vps_keys[ki]])
  THEN IF Monitored(RecAt(vps_keys[ki], li)) THEN <<"at", ki, li>>
       ELSE Scan(ki, li + 1, TRUE, n)
  ELSE IF Len(vps_keys) # n THEN <<"error", 0, 0>>
  ELSE IF ki + 1 > Len(vps_keys) THEN <<"end", 0, 0>>
  ELSE Scan(ki + 1, 1, TRUE, n)

\* the loops without the try of line 386: the RuntimeError ends the coroutine
MonAtUncaught(r, n) ==
  IF r[1] = "at"
  THEN [MonIdle EXCEPT !.pc = "sample", !.ki = r[2], !.li = r[3], !.n = n,
                       !.oid = vps_data[vps_keys[r[2]]][r[3]],
                       !.name = RecAt(vps_keys[r[2]], r[3]).container_name,
                       !.seen = IF mon.pc = "idle" THEN {} ELSE mon.seen \cup {mon.oid}]
  ELSE IF r[1] = "error" THEN [MonIdle EXCEPT !.pc = "dead"]
  ELSE MonIdle

\* the monitor after the loops have moved on to r
MonAt(r, n) ==
  IF r[1] = "at"
  THEN [MonIdle EXCEPT !.pc = "sample", !.ki = r[2], !.li = r[3], !.n = n,
                       !.oid = vps_data[vps_keys[r[2]]][r[3]],
                       !.name = RecAt(vps_keys[r[2]], r[3]).container_name,
                       !.seen = IF mon.pc = "idle" THEN {} ELSE mon.seen \cup {mon.oid}]
  ELSE MonIdle

MonEvent(r, name, calls) ==
  Event("monitor", 0, IF r[1] = "at" THEN "sampling" ELSE r[1], name, calls)

\* the sleep is over: a new sweep begins
MonSweep ==
  /\ LoopFree
  /\ mon.pc = "idle"
  /\ LET r == Scan(0, 0, FALSE, Len(vps_keys))
     IN  /\ mon' = MonAt(r, Len(vps_keys))
         /\ ev' = MonEvent(r, NoName, <<>>)
  /\ UNCHANGED <<regVars, admin_data, files, rt, clock, tasks, viewVars, host,
                 cpu_monitor_active, saving>>

\* lines 391-397: the usage is read; above a threshold, lxc stop is issued
MonSample(cpu, ram) ==
  /\ LoopFree
  /\ mon.pc = "sample"
  /\ IF cpu > CPU_THRESHOLD \/ ram > RAM_THRESHOLD
     THEN /\ mon' = [mon EXCEPT !.pc = "stop", !.cpu = cpu, !.ram = ram,
                                !.pre = CanSucceed(rt, Call("stop", mon.name))]
          /\ ev' = Event("monitor", 0, "stopping", mon.name, <<Call("probe", mon.name)>>)
          /\ heap' = heap
     ELSE LET r == Scan(mon.ki, mon.li + 1, ~mon.stale, mon.n)
          IN  /\ mon' = MonAt(r, mon.n)
              /\ ev' = MonEvent(r, mon.name, <<Call("probe", mon.name)>>)
              /\ heap' = Collect(heap, Live(vps_data, tasks, views, confirms, mon'))
  /\ UNCHANGED <<vps_data, vps_keys, admin_data, files, rt, clock, tasks, viewVars, host,
                 cpu_monitor_active, saving>>

\* f"High resource usage: CPU {cpu:.1f}%, RAM {ram:.1f}% (threshold: ...)"
AutoReason(cpu, ram) ==
  <<"High resource usage: CPU ", cpu, "%, RAM ", ram, "% (threshold: ",
    CPU_THRESHOLD, "% CPU / ", RAM_THRESHOLD, "% RAM)">>

\* an entry that does not say who suspended
HistoryByNobody(now, reason, by) == [time |-> now, reason |-> reason, by |-> ""]

HistoryEntry(now, reason, by) == [time |-> now, reason |-> reason, by |-> by]

\* lines 397-407 and 415-416: lxc stop has ended; on success the dict is marked
\* suspended, the history entry appended, and the registry saved
MonStopDone(ok) ==
  /\ LoopFree
  /\ mon.pc = "stop"
  /\ LET c == Call("stop", mon.name)
     IN  /\ ok => CanComplete(rt, c, mon.pre)
         /\ rt' = IF ok THEN Effect(rt, c) ELSE rt
         /\ IF ok
            THEN /\ clock < MaxClock
                 /\ heap' = [heap EXCEPT ![mon.oid] =
                      [@ EXCEPT !.status = "suspended", !.suspended = TRUE,
                                !.suspension_history =
                                   Append(@, HistoryEntry(clock + 1,
                                            AutoReason(mon.cpu, mon.ram),
                                            "UnixNodes Auto-System"))]]
                 /\ clock' = clock + 1
                 /\ saving' = TRUE
                 /\ mon' = [mon EXCEPT !.pc = "notify"]
                 /\ ev' = Event("monitor", 0, "suspended", mon.name, <<c>>)
            ELSE LET r == Scan(mon.ki, mon.li + 1, ~mon.stale, mon.n)
                 IN  /\ mon' = MonAt(r, mon.n)
                     /\ ev' = Event("monitor", 0, "failed", mon.name, <<c>>)
                     /\ heap' = Collect(heap, Live(vps_data, tasks, views, confirms, mon'))
                     /\ UNCHANGED <<clock, saving>>
  /\ UNCHANGED <<vps_data, vps_keys, admin_data, files, tasks, viewVars, host,
                 cpu_monitor_active>>

\* lines 409-414: the DM to the owner was sent or failed; the loops go on
MonNotify(sent) ==
  /\ LoopFree
  /\ mon.pc = "notify"
  /\ LET r == Scan(mon.ki, mon.li + 1, ~mon.stale, mon.n)
     IN  /\ mon' = MonAt(r, mon.n)
         /\ ev' = MonEvent(r, mon.name, <<>>)
  /\ heap' = Collect(heap, Live(vps_data, tasks, views, confirms, mon'))
  /\ UNCHANGED <<vps_data, vps_keys, admin_data, files, rt, clock, tasks, viewVars, host,
                 cpu_monitor_active, saving>>

\* -------------------------------------------------------------- cpu_monitor
\* host: pc is "sleep", "stopall" (subprocess.run of lxc stop --all --force),
\* "mark" (the loop over vps_data.items(), at key ki), "save" (save_data) or
\* "dead" (the while loop has ended).  The thread takes its steps whatever the
\* event loop is doing.
HostAsleep == [pc |-> "sleep", ki |-> 0, n |-> 0, stale |-> FALSE]

\* line 229 to 235: the flag is tested, the host's usage read
HostSample(cpu_usage) ==
  /\ host.pc = "sleep"
  /\ host' = IF ~cpu_monitor_active THEN [HostAsleep EXCEPT !.pc = "dead"]
             ELSE IF cpu_usage > CPU_THRESHOLD THEN [HostAsleep EXCEPT !.pc = "stopall"]
             ELSE HostAsleep
  /\ ev' = Event("host", 0, IF ~cpu_monitor_active THEN "exit"
                            ELSE IF cpu_usage > CPU_THRESHOLD THEN "breach" ELSE "calm",
                 NoName, <<>>)
  /\ UNCHANGED <<regVars, admin_data, files, rt, clock, tasks, viewVars, mon,
                 cpu_monitor_active, saving>>

\* line 239: lxc stop --all --force
HostStopAll(ok) ==
  /\ host.pc = "stopall"
  /\ rt' = IF ok THEN [rt EXCEPT !.running = {}] ELSE rt
  /\ host' = IF ok THEN [HostAsleep EXCEPT !.pc = "mark", !.n = Len(vps_keys)]
             ELSE HostAsleep
  /\ ev' = Event("host", 0, IF ok THEN "stopped-all" ELSE "failed", NoName,
                 <<Call("stopall", NoName)>>)
  /\ UNCHANGED <<regVars, admin_data, files, clock, tasks, viewVars, mon,
                 cpu_monitor_active, saving>>

\* lines 243-246, one key of vps_data.items() at a time: every running record
\* of the key's list becomes stopped
HostMark ==
  /\ host.pc = "mark"
  /\ IF Len(vps_keys) # host.n
     THEN /\ host' = HostAsleep
          /\ ev' = Event("host", 0, "error", NoName, <<>>)
          /\ heap' = heap
     ELSE IF host.ki + 1 > Len(vps_keys)
     THEN /\ host' = [host EXCEPT !.pc = "save"]
          /\ ev' = Event("host", 0, "marked", NoName, <<>>)
          /\ heap' = heap
     ELSE LET lst == vps_data[vps_keys[host.ki + 1]]
          IN  /\ host' = [host EXCEPT !.ki = @ + 1, !.stale = FALSE]
              /\ ev' = Event("host", 0, "marking", NoName, <<>>)
              /\ heap' = [x \in DOMAIN heap |->
                            IF x \in Range(lst) /\ heap[x].status = "running"
                            THEN [heap[x] EXCEPT !.status = "stopped"] ELSE heap[x]]
  /\ UNCHANGED <<vps_data, vps_keys, admin_data, files, rt, clock, tasks, viewVars, mon,
                 cpu_monitor_active, saving>>

\* line 247: save_data() in the monitor's thread
HostSave(ok) ==
  /\ host.pc = "save"
  /\ files' = IF ok THEN Snapshot ELSE files
  /\ host' = HostAsleep
  /\ UNCHANGED <<regVars, admin_data, rt, clock, tasks, viewVars, mon,
                 cpu_monitor_active, saving, ev>>

\* ------------------------------------------------- suspend and unsuspend
\* the place of an owner's key in vps_data
KeyPos(o) == CHOOSE k \in 1..Len(vps_keys) : vps_keys[k] = o

\* suspend_vps, lines 1923-1926 and 1951-1952: no record has the name ("Not
\* Found"), or the first one that has it is not running ("Cannot Suspend")
\* the test of line 1926 left out
SuspendableAlways(vps) == TRUE

\* suspend_vps, line 1926: if vps.get('status') != 'running'
Suspendable(vps) == vps.status = "running"

SuspendRefused(actor, name) ==
  /\ LoopFree
  /\ IsAdmin(actor)
  /\ LET f == FindVps(name)
     IN  /\ f[2] # 0 => ~Suspendable(RecAt(f[1], f[2]))
         /\ Respond(Event("suspend", actor,
                          IF f[2] = 0 THEN "notfound" ELSE "not-running", name, <<>>))

\* suspend_vps, lines 1919-1928: the first record with the name is running,
\* lxc stop is issued
SuspendBegin(actor, name) ==
  /\ CanSpawn
  /\ IsAdmin(actor)
  /\ LET f == FindVps(name)
     IN  /\ f[2] # 0
         /\ Suspendable(RecAt(f[1], f[2]))
         /\ LET oid == vps_data[f[1]][f[2]]
                t == Task("suspend", actor, f[1], f[2], name, oid,
                          CanSucceed(rt, Call("stop", name)))
            IN  tasks' = Append(tasks, [t EXCEPT !.was = heap[oid]])
  /\ ev' = Event("suspend", actor, "pending", name, <<>>)
  /\ UNCHANGED <<regVars, admin_data, files, rt, clock, viewVars, monVars, saving>>

\* suspend_vps, lines 1928-1950: after lxc stop the dict is marked suspended,
\* the entry of the admin appended and the registry saved; the DM to the owner
\* and the answer follow and touch nothing
SuspendFinish(n, ok) ==
  /\ LoopFree
  /\ n \in 1..Len(tasks)
  /\ tasks[n].op = "suspend"
  /\ LET t == tasks[n]
         c == Call("stop", t.name)
     IN  /\ ok => CanComplete(rt, c, t.pre)
         /\ rt' = IF ok THEN Effect(rt, c) ELSE rt
         /\ tasks' = RemoveAt(tasks, n)
         /\ IF ok
            THEN /\ clock < MaxClock
                 /\ heap' = Collect(
                      [heap EXCEPT ![t.oid] =
                         [@ EXCEPT !.status = "suspended", !.suspended = TRUE,
                                   !.suspension_history =
                                      Append(@, HistoryEntry(clock + 1, "Admin action",
                                                             t.actor))]],
                      Live(vps_data, tasks', views, confirms, mon))
                 /\ clock' = clock + 1
                 /\ saving' = TRUE
                 /\ ev' = Event("suspend", t.actor, "ok", t.name, <<c>>)
            ELSE /\ heap' = Collect(heap, Live(vps_data, tasks', views, confirms, mon))
                 /\ ev' = Event("suspend", t.actor, "failed", t.name, <<c>>)
                 /\ UNCHANGED <<clock, saving>>
  /\ UNCHANGED <<vps_data, vps_keys, admin_data, files, viewVars, monVars>>

\* the test of line 1966 left out
NeverNotSuspended(vps) == FALSE

\* unsuspend_vps, line 1966: if not vps.get('suspended', False)
NotSuspended(vps) == ~vps.suspended

\* unsuspend_vps, lines 1966-1968 and 1980-1981: "Not Suspended" for the first
\* record with the name, "Not Found" when there is none
UnsuspendRefused(actor, name) ==
  /\ LoopFree
  /\ IsAdmin(actor)
  /\ LET f == FindVps(name)
     IN  /\ f[2] # 0 => NotSuspended(RecAt(f[1], f[2]))
         /\ Respond(Event("unsuspend", actor,
                          IF f[2] = 0 THEN "notfound" ELSE "not-suspended", name, <<>>))

\* lines 1970-1972 for the dict at place f: the flag is cleared and the status
\* set to 'running', then lxc start is issued
UnsuspendAt(t, f) ==
  [t EXCEPT !.uid = f[1], !.idx = f[2], !.oid = vps_data[f[1]][f[2]],
            !.was = RecAt(f[1], f[2]), !.ki = KeyPos(f[1]),
            !.pre = CanSucceed(rt, Call("start", t.name))]

\* an unsuspend that clears the history with the flag
UnsuspendedForgets(h, oid) ==
  [h EXCEPT ![oid].suspended = FALSE, ![oid].status = "running",
            ![oid].suspension_history = <<>>]

Unsuspended(h, oid) == [h EXCEPT ![oid].suspended = FALSE, ![oid].status = "running"]

\* unsuspend_vps, lines 1962-1972
UnsuspendBegin(actor, name) ==
  /\ CanSpawn
  /\ IsAdmin(actor)
  /\ LET f == FindVps(name)
     IN  /\ f[2] # 0
         /\ ~NotSuspended(RecAt(f[1], f[2]))
         /\ LET t == UnsuspendAt([Task("unsuspend", actor, 0, 0, name, 0, FALSE)
                                    EXCEPT !.n = Len(vps_keys)], f)
            IN  /\ tasks' = Append(tasks, t)
                /\ heap' = Unsuspended(heap, t.oid)
  /\ ev' = Event("unsuspend", actor, "pending", name, <<>>)
  /\ UNCHANGED <<vps_data, vps_keys, admin_data, files, rt, clock, viewVars, monVars, saving>>

\* unsuspend_vps, lines 1972-1981: lxc start has ended.  After a success the
\* registry is saved.  After a failure ("Start Failed") break leaves the inner
\* loop only: the iteration of vps_data.items() goes on (RuntimeError when the
\* size of vps_data has changed) to the next list with a record of that name.
\* found is still False when the loops end: "Not Found" is sent as well, or
\* "Not Suspended" for a later record of that name that is not suspended; the
\* RuntimeError is answered by on_command_error after "Start Failed".
UnsuspendFinish(n, ok) ==
  /\ LoopFree
  /\ n \in 1..Len(tasks)
  /\ tasks[n].op = "unsuspend"
  /\ LET t == tasks[n]
         c == Call("start", t.name)
         f == IF Len(vps_keys) # t.n THEN <<0, 0>> ELSE FindFrom(t.name, t.ki + 1)
         again == ~ok /\ f[2] # 0 /\ ~NotSuspended(RecAt(f[1], f[2]))
     IN  /\ ok => CanComplete(rt, c, t.pre)
         /\ rt' = IF ok THEN Effect(rt, c) ELSE rt
         /\ tasks' = IF again THEN [tasks EXCEPT ![n] = UnsuspendAt(t, f)]
                     ELSE RemoveAt(tasks, n)
         /\ heap' = Collect(IF again THEN Unsuspended(heap, vps_data[f[1]][f[2]]) ELSE heap,
                            Live(vps_data, tasks', views, confirms, mon))
         /\ saving' = ok
         /\ ev' = [Event("unsuspend", t.actor,
                         IF ok THEN "ok" ELSE IF Len(vps_keys) # t.n THEN "error" ELSE "failed",
                         t.name, <<c>>)
                     EXCEPT !.also = IF ok \/ again THEN "none"
                                     ELSE IF Len(vps_keys) # t.n THEN "failed"
                                     ELSE IF f[2] = 0 THEN "notfound" ELSE "not-suspended"]
  /\ UNCHANGED <<vps_data, vps_keys, admin_data, files, clock, viewVars, monVars>>

\* ------------------------------------------- add-resources and resize-vps
\* add_resources (lines 1068-1158) and resize_vps (lines 1590-1675) differ in
\* the new value (current + argument, or the argument) and in their messages.
ResizeOps == {"add-resources", "resize-vps"}

\* ram: int = None: an argument that was not given
None == 0 - 2

\* a new value that ignores the sign of the argument
NewValueUnchecked(op, cur, arg) ==
  IF arg # None THEN (IF op = "add-resources" THEN cur + arg ELSE arg) ELSE cur

\* a new value that replaces where it should add
NewValueReplaces(op, cur, arg) ==
  IF arg # None /\ arg > 0 THEN arg ELSE cur

\* if ram is not None and ram > 0: new_ram_gb += ram (add-resources),
\* new_ram_gb = ram (resize-vps)
NewValue(op, cur, arg) ==
  IF arg # None /\ arg > 0 THEN (IF op = "add-resources" THEN cur + arg ELSE arg) ELSE cur

\* current_ram_gb, current_cpu, current_disk_gb are read from the dict and the
\* new values are computed from them
NewValues(op, vps, ram, cpu, dsk) ==
  <<NewValue(op, ParseGB(vps.ram), ram), NewValue(op, IntOf(vps.cpu), cpu),
    NewValue(op, ParseGB(vps.storage), dsk)>>

\* one lxc config call for every argument that is given and positive
ResizeCalls(name, ram, cpu, dsk, new) ==
  (IF ram # None /\ ram > 0 THEN <<Call2("set_mem", name, new[1] * 1024)>> ELSE <<>>)
    \o (IF cpu # None /\ cpu > 0 THEN <<Call2("set_cpu", name, new[2])>> ELSE <<>>)
    \o (IF dsk # None /\ dsk > 0 THEN <<Call2("set_disk", name, new[3])>> ELSE <<>>)

\* found_vps['ram'] = ..., ['cpu'], ['storage'], ['config']
Resized(vps, new) ==
  [vps EXCEPT !.ram = FmtGB(new[1]), !.cpu = StrOf(new[2]), !.storage = FmtGB(new[3]),
              !.config = ConfigStr(new[1], new[2], new[3])]

\* vps_data[user_id][vps_index] = found_vps can be carried out: the key and the
\* index found by the lookup are still there
CanWriteBack(t) == HasKey(t.uid) /\ t.idx <= Len(vps_data[t.uid])

WriteBack(t) ==
  IF CanWriteBack(t) THEN [vps_data EXCEPT ![t.uid][t.idx] = t.oid] ELSE vps_data

\* "Missing Parameters"
ResizeMissing(actor, op) ==
  /\ LoopFree
  /\ IsAdmin(actor)
  /\ Respond(Event(op, actor, "missing", NoName, <<>>))

\* "VPS Not Found"
ResizeNotFound(actor, op, name, ram, cpu, dsk) ==
  /\ LoopFree
  /\ IsAdmin(actor)
  /\ ram # None \/ cpu # None \/ dsk # None
  /\ FindVps(name) = <<0, 0>>
  /\ Respond(Event(op, actor, "notfound", name, <<>>))

\* the lookup, and either the wait on lxc stop (the record is running and not
\* suspended) or the first lxc config call; with no call to make the record is
\* rewritten and saved at once
ResizeBegin(actor, op, name, ram, cpu, dsk) ==
  /\ CanSpawn
  /\ IsAdmin(actor)
  /\ ram # None \/ cpu # None \/ dsk # None
  /\ FindVps(name) # <<0, 0>>
  /\ \A i \in 1..3 :
       NewValues(op, RecAt(FindVps(name)[1], FindVps(name)[2]), ram, cpu, dsk)[i] <= MaxTotal
  /\ LET f == FindVps(name)
         oid == vps_data[f[1]][f[2]]
         vps == heap[oid]
         was_running == vps.status = "running" /\ ~vps.suspended
         new == NewValues(op, vps, ram, cpu, dsk)
         cs == ResizeCalls(name, ram, cpu, dsk, new)
         t == [Task(op, actor, f[1], f[2], name, oid,
                    was_running /\ CanSucceed(rt, Call("stop", name)))
                 EXCEPT !.ram = ram, !.cpu = cpu, !.dsk = dsk, !.was = vps,
                        !.was_running = was_running]
     IN  IF was_running
         THEN /\ tasks' = Append(tasks, [t EXCEPT !.pc = "stop"])
              /\ ev' = Event(op, actor, "pending", name, <<>>)
              /\ UNCHANGED <<heap, saving>>
         ELSE IF cs # <<>>
         THEN /\ tasks' = Append(tasks, [t EXCEPT !.pc = "set", !.new = new])
              /\ ev' = Event(op, actor, "pending", name, <<>>)
              /\ UNCHANGED <<heap, saving>>
         ELSE /\ heap' = [heap EXCEPT ![oid] = Resized(vps, new)]
              /\ saving' = TRUE
              /\ ev' = Event(op, actor, "ok", name, <<>>)
              /\ UNCHANGED tasks
  /\ UNCHANGED <<vps_data, vps_keys, admin_data, files, rt, clock, viewVars, monVars>>

\* lxc stop has returned: status 'stopped' is written and saved, the current
\* values are read and the first lxc config call is issued; "Stop Failed" ends
\* the command
ResizeStopDone(n, ok) ==
  /\ LoopFree
  /\ n \in 1..Len(tasks)
  /\ tasks[n].op \in ResizeOps /\ tasks[n].pc = "stop"
  /\ LET t == tasks[n]
         c == Call("stop", t.name)
         new == NewValues(t.op, heap[t.oid], t.ram, t.cpu, t.dsk)
         cs == ResizeCalls(t.name, t.ram, t.cpu, t.dsk, new)
     IN  IF ok
         THEN /\ CanComplete(rt, c, t.pre)
              /\ rt' = Effect(rt, c)
              /\ saving' = TRUE
              /\ IF cs # <<>>
                 THEN /\ heap' = [heap EXCEPT ![t.oid].status = "stopped"]
                      /\ tasks' = [tasks EXCEPT ![n] = [t EXCEPT !.pc = "set", !.new = new]]
                      /\ ev' = Event(t.op, t.actor, "pending", t.name, <<c>>)
                      /\ UNCHANGED vps_data
                 ELSE IF CanWriteBack(t)
                 THEN /\ heap' = Collect(
                           [heap EXCEPT ![t.oid] = Resized([@ EXCEPT !.status = "stopped"], new)],
                           Live(WriteBack(t), tasks, views, confirms, mon))
                      /\ vps_data' = WriteBack(t)
                      /\ tasks' = [tasks EXCEPT ![n] =
                                     [t EXCEPT !.pc = "start", !.new = new,
                                               !.pre = CanSucceed(rt', Call("start", t.name))]]
                      /\ ev' = Event(t.op, t.actor, "pending", t.name, <<c>>)
                 ELSE /\ tasks' = RemoveAt(tasks, n)
                      /\ heap' = Collect(
                           [heap EXCEPT ![t.oid] = Resized([@ EXCEPT !.status = "stopped"], new)],
                           Live(vps_data, tasks', views, confirms, mon))
                      /\ ev' = Event(t.op, t.actor, "failed", t.name, <<c>>)
                      /\ UNCHANGED vps_data
         ELSE /\ tasks' = RemoveAt(tasks, n)
              /\ heap' = Collect(heap, Live(vps_data, tasks', views, confirms, mon))
              /\ ev' = Event(t.op, t.actor, "failed", t.name, <<c>>)
              /\ UNCHANGED <<vps_data, rt, saving>>
  /\ UNCHANGED <<vps_keys, admin_data, files, clock, viewVars, monVars>>

\* k of the lxc config calls succeed; after the last one the dict is updated,
\* written back at the index of the lookup and saved, and lxc start is issued
\* when the container was running; a failed call, or a key or index that is no
\* longer there, raises: "Resource Addition Failed" / "Resize Failed"
ResizeSetDone(n, k) ==
  /\ LoopFree
  /\ n \in 1..Len(tasks)
  /\ tasks[n].op \in ResizeOps /\ tasks[n].pc = "set"
  /\ LET t == tasks[n]
         cs == ResizeCalls(t.name, t.ram, t.cpu, t.dsk, t.new)
     IN  /\ k \in 0..Len(cs)
         /\ Feasible(rt, cs, k)
         /\ rt' = RunCalls(rt, cs, k)
         /\ IF k = Len(cs) /\ CanWriteBack(t)
            THEN /\ vps_data' = WriteBack(t)
                 /\ saving' = TRUE
                 /\ IF t.was_running
                    THEN /\ tasks' = [tasks EXCEPT ![n] =
                                        [t EXCEPT !.pc = "start",
                                                  !.pre = CanSucceed(rt', Call("start", t.name))]]
                         /\ ev' = Event(t.op, t.actor, "pending", t.name, cs)
                    ELSE /\ tasks' = RemoveAt(tasks, n)
                         /\ ev' = Event(t.op, t.actor, "ok", t.name, cs)
                 /\ heap' = Collect([heap EXCEPT ![t.oid] = Resized(@, t.new)],
                                    Live(vps_data', tasks', views, confirms, mon))
            ELSE /\ tasks' = RemoveAt(tasks, n)
                 /\ heap' = Collect(
                      IF k = Len(cs) THEN [heap EXCEPT ![t.oid] = Resized(@, t.new)] ELSE heap,
                      Live(vps_data, tasks', views, confirms, mon))
                 /\ ev' = Event(t.op, t.actor, "failed", t.name, Issued(cs, k))
                 /\ UNCHANGED <<vps_data, saving>>
  /\ UNCHANGED <<vps_keys, admin_data, files, clock, viewVars, monVars>>

\* the write of line 1149 left out
StartedKeeps(vps) == vps

\* lines 1149 and 1666: found_vps['status'] = 'running'
Started(vps) == [vps EXCEPT !.status = "running"]

\* lxc start has returned: status 'running' is written and saved and the
\* success is reported; a failed start raises
ResizeStartDone(n, ok) ==
  /\ LoopFree
  /\ n \in 1..Len(tasks)
  /\ tasks[n].op \in ResizeOps /\ tasks[n].pc = "start"
  /\ LET t == tasks[n]
         c == Call("start", t.name)
     IN  /\ tasks' = RemoveAt(tasks, n)
         /\ IF ok
            THEN /\ CanComplete(rt, c, t.pre)
                 /\ rt' = Effect(rt, c)
                 /\ heap' = Collect([heap EXCEPT ![t.oid] = Started(@)],
                                    Live(vps_data, tasks', views, confirms, mon))
                 /\ saving' = TRUE
                 /\ ev' = Event(t.op, t.actor, "ok", t.name, <<c>>)
            ELSE /\ heap' = Collect(heap, Live(vps_data, tasks', views, confirms, mon))
                 /\ ev' = Event(t.op, t.actor, "failed", t.name, <<c>>)
                 /\ UNCHANGED <<rt, saving>>
  /\ UNCHANGED <<vps_data, vps_keys, admin_data, files, clock, viewVars, monVars>>

\* ------------------------------------------------------------- restart-vps
\* restart_vps, lines 1395-1402, behind @is_admin(): no lookup of the registry
\* before the gateway call
RestartBegin(actor, name) ==
  /\ CanSpawn
  /\ IsAdmin(actor)
  /\ tasks' = Append(tasks, Task("restart", actor, 0, 0, name, 0,
                                 CanSucceed(rt, Call("restart", name))))
  /\ ev' = Event("restart", actor, "pending", name, <<>>)
  /\ UNCHANGED <<regVars, admin_data, files, rt, clock, viewVars, monVars, saving>>

\* lines 1402-1417: after lxc restart the first record with the name in every
\* owner's list is set running and not suspended, and saved
RestartFinish(n, ok) ==
  /\ LoopFree
  /\ n \in 1..Len(tasks)
  /\ tasks[n].op = "restart"
  /\ LET t == tasks[n]
         c == Call("restart", t.name)
         hits == MigrateHits(t.name)
     IN  /\ ok => CanComplete(rt, c, t.pre)
         /\ rt' = IF ok THEN Effect(rt, c) ELSE rt
         /\ tasks' = RemoveAt(tasks, n)
         /\ heap' = Collect(
              [x \in DOMAIN heap |->
                 IF ok /\ x \in hits
                 THEN [heap[x] EXCEPT !.status = "running", !.suspended = FALSE]
                 ELSE heap[x]],
              Live(vps_data, tasks', views, confirms, mon))
         /\ saving' = (ok /\ hits # {})
         /\ ev' = Event("restart", t.actor, IF ok THEN "ok" ELSE "failed", t.name, <<c>>)
  /\ UNCHANGED <<vps_data, vps_keys, admin_data, files, clock, viewVars, monVars>>

\* ------------------------------------------------------------ initial states
\* The state after the module has been loaded: vps_data and admin_data hold what
\* the two documents held, nothing is in flight, both monitors are about to run.
NoTasks == tasks = <<>>

InitControl ==
  /\ clock = 0
  /\ tasks = <<>>
  /\ views = <<>>
  /\ confirms = <<>>
  /\ mon = MonIdle
  /\ host = HostAsleep
  /\ cpu_monitor_active = TRUE
  /\ saving = FALSE
  /\ ev = NoEvent

\* no vps_data.json, and admin_data.json as load_admin_data makes it up
InitEmpty ==
  /\ InitControl
  /\ vps_data = [o \in Users |-> <<>>]
  /\ vps_keys = <<>>
  /\ heap = <<>>
  /\ admin_data = <<MAIN_ADMIN_ID>>
  /\ rt = [exists |-> {}, running |-> {}, limits |-> <<>>]
  /\ files = [keys |-> <<>>, vps |-> [o \in Users |-> <<>>], admins |-> <<MAIN_ADMIN_ID>>]

\* ------------------------------------------------ create and delete, in turn
NextCreateDelete ==
  \/ NoTasks /\ \E user \in Users \ {MAIN_ADMIN_ID}, ram \in 1..MaxRes :
       CreateBegin(MAIN_ADMIN_ID, ram, 1, 1, user)
  \/ \E n \in 1..MaxTasks, k \in 0..5 : CreateFinish(n, k)
  \/ NoTasks /\ \E user \in Users \ {MAIN_ADMIN_ID}, i \in 1..MaxVps :
       DeleteBegin(MAIN_ADMIN_ID, user, i)
  \/ \E n \in 1..MaxTasks, ok \in BOOLEAN, wait \in BOOLEAN : DeleteFinish(n, ok, wait)
  \/ \E n \in 1..MaxTasks, done \in BOOLEAN : DeleteRoleDone(n, done)
  \/ SaveData

SpecCreateDelete == InitEmpty /\ [][NextCreateDelete]_vars

\* C2: the name create derives for an owner (owner id and len(list) + 1) is the
\* name of no record of the registry.
C2_DerivedNameIsFree ==
  \A o \in Users : ContainerName(o, Len(vps_data[o]) + 1) \notin AllNames

\* ------------------------- the registry commands, one command after another
\* the commands are the main admin's, about the containers of one member
Owners == {2}

GivenNames == {ContainerName(o, 1) : o \in Owners}

NextRegistry ==
  \/ NoTasks /\ \E user \in Owners : CreateBegin(MAIN_ADMIN_ID, 1, 1, 1, user)
  \/ \E n \in 1..MaxTasks, k \in {0, 1, 5} : CreateFinish(n, k)
  \/ NoTasks /\ \E user \in Owners, i \in 1..MaxVps : DeleteBegin(MAIN_ADMIN_ID, user, i)
  \/ \E n \in 1..MaxTasks, ok \in BOOLEAN, wait \in BOOLEAN : DeleteFinish(n, ok, wait)
  \/ \E n \in 1..MaxTasks, done \in BOOLEAN : DeleteRoleDone(n, done)
  \/ NoTasks /\ \E name \in AllNames, given \in BOOLEAN, to \in GivenNames :
       /\ Len(vps_data[FindVps(name)[1]]) < MaxVps
       /\ CloneBegin(MAIN_ADMIN_ID, name, given, to)
  \/ \E n \in 1..MaxTasks, k \in 0..2 : CloneFinish(n, k)
  \/ NoTasks /\ \E name \in AllNames : MigrateBegin(MAIN_ADMIN_ID, name)
  \/ \E n \in 1..MaxTasks, k \in 0..5 : MigrateFinish(n, k)
  \/ NoTasks /\ \E u \in Owners : ManageOwn(u)
  \/ \E vi \in 1..MaxViews, i \in 1..MaxVps : SelectVps(vi, views[vi].user_id, i)
  \/ NoTasks /\ \E vi \in 1..MaxViews : ReinstallRequest(vi, views[vi].user_id)
  \/ NoTasks /\ \E ci \in 1..MaxViews : ConfirmBegin(ci)
  \/ \E n \in 1..MaxTasks, k \in {0, 1, 2, 6} : ConfirmFinish(n, k)
  \/ \E ci \in 1..MaxViews : ConfirmDismiss(ci)
  \/ \E vi \in 1..MaxViews : ViewExpire(vi)
  \/ SaveData

SpecRegistry == InitEmpty /\ [][NextRegistry]_vars

\* C1: no two records of the registry, of one owner or of two, have the same
\* container_name.
C1_NamesUnique ==
  \A s1 \in AllSlots, s2 \in AllSlots :
    s1 # s2 => RecAt(s1[1], s1[2]).container_name # RecAt(s2[1], s2[2]).container_name

\* ------------------------------------ the admin set and the commands behind it
AdminOps == {"admin-add", "admin-remove", "admin-list"}

NextAdmin ==
  \/ \E actor \in Users, user \in Users : AdminAdd(actor, user)
  \/ \E actor \in Users, user \in Users : AdminRemove(actor, user)
  \/ \E actor \in Users : AdminList(actor)
  \/ \E actor \in Users, op \in AdminOps : MainAdminCheckFails(actor, op)
  \/ \E actor \in Users : AdminCheckFails(actor, "create")
  \/ NoTasks /\ \E actor \in Users, user \in Owners : CreateBegin(actor, 1, 1, 1, user)
  \/ \E n \in 1..MaxTasks, k \in {0, 5} : CreateFinish(n, k)
  \/ SaveData
  \/ SaveDataFails

SpecAdmin == InitEmpty /\ [][NextAdmin]_vars

\* C8: the admin set changes in no step but an admin-add or admin-remove of the
\* main admin, and an admin-add, admin-remove or admin-list of anyone else is
\* answered with a denial and leaves the admin set as it was.
C8_AdminSetByMainAdminOnly ==
  [][/\ admin_data' # admin_data =>
          ev'.op \in {"admin-add", "admin-remove"} /\ ev'.actor = MAIN_ADMIN_ID
     /\ (ev' # ev /\ ev'.op \in AdminOps /\ ev'.actor # MAIN_ADMIN_ID) =>
          ev'.out = "denied" /\ admin_data' = admin_data]_vars

\* an ordinary admin has been denied an admin-add
C8_Witness ==
  /\ ev.op = "admin-add" /\ ev.out = "denied"
  /\ ev.actor \in Range(admin_data) \ {MAIN_ADMIN_ID}

\* C9: whatever admin-add and admin-remove have done, the main admin passes
\* the admin check and the main-admin check and is denied no command; an
\* admin-add or admin-remove naming the main admin is turned down and leaves
\* the admin set as it was.
C9_MainAdminStays ==
  [][/\ IsAdmin(MAIN_ADMIN_ID)' /\ IsMainAdmin(MAIN_ADMIN_ID)'
     /\ (ev' # ev /\ ev'.actor = MAIN_ADMIN_ID) => ev'.out # "denied"
     /\ (ev' # ev /\ ev'.op \in {"admin-add", "admin-remove"}
           /\ ev'.arg = MAIN_ADMIN_ID /\ ev'.actor = MAIN_ADMIN_ID) =>
          ev'.out \in {"already", "refused"} /\ admin_data' = admin_data]_vars

\* the main admin asked to remove the main admin, with other admins in the set
C9_Witness ==
  /\ ev.op = "admin-remove" /\ ev.arg = MAIN_ADMIN_ID /\ ev.out = "refused"
  /\ Len(admin_data) > 1

\* --------------------------------- access: views, sharing, reinstall, delete
\* the users that are neither the main admin nor an owner
Guests == Users \ ({MAIN_ADMIN_ID} \cup Owners)

\* a record as vps_monitor leaves it
Suspended(vps, now) ==
  [vps EXCEPT !.status = "suspended", !.suspended = TRUE,
              !.suspension_history =
                 Append(@, HistoryEntry(now, AutoReason(95, 50), "UnixNodes Auto-System"))]

\* vps_data.json as earlier runs left it: every owner has MaxVps containers,
\* the first of them running or suspended by the monitor, the last one shared
\* with a guest
LoadedRecord(o, i, susp, g) ==
  LET vps == VpsInfo(ContainerName(o, i), 1, 1, 1, 0)
  IN  IF i = 1 /\ susp THEN Suspended(vps, 0)
      ELSE IF i = MaxVps THEN [vps EXCEPT !.shared_with = <<g>>]
      ELSE vps

OwnerSeq == CHOOSE q \in [1..Cardinality(Owners) -> Owners] :
              \A i, j \in DOMAIN q : i < j => q[i] < q[j]

InitLoaded ==
  /\ InitControl
  /\ vps_keys = OwnerSeq
  /\ vps_data = [o \in Users |->
                   IF o \in Owners
                   THEN [i \in 1..MaxVps |->
                           ((CHOOSE k \in DOMAIN OwnerSeq : OwnerSeq[k] = o) - 1) * MaxVps + i]
                   ELSE <<>>]
  /\ \E susp \in BOOLEAN, g \in Guests :
       heap = [x \in 1..(Cardinality(Owners) * MaxVps) |->
                 LET k == ((x - 1) \div MaxVps) + 1
                     i == ((x - 1) % MaxVps) + 1
                 IN  LoadedRecord(OwnerSeq[k], i, susp, g)]
  /\ admin_data = <<MAIN_ADMIN_ID>>
  /\ rt = [exists |-> {heap[x].container_name : x \in DOMAIN heap},
           running |-> {heap[x].container_name :
                          x \in {y \in DOMAIN heap : heap[y].status = "running"}},
           limits |-> [name \in {heap[x].container_name : x \in DOMAIN heap} |->
                         LET vps == heap[CHOOSE x \in DOMAIN heap :
                                           heap[x].container_name = name]
                         IN  [mem |-> ParseGB(vps.ram) * 1024, cpu |-> IntOf(vps.cpu),
                              dsk |-> ParseGB(vps.storage)]]]
  /\ files = Snapshot

NextAccess ==
  \/ \E a \in Users : ManageOwn(a)
  \/ \E a \in Users, u \in Owners : ManageOther(a, u)
  \/ \E a \in Users, u \in Owners \cup {0} : ManageRefused(a, u)
  \/ \E a \in Users, o \in Owners, i \in 1..MaxVps : ManageShared(a, o, i)
  \/ \E a \in Users, o \in Owners, i \in 1..MaxVps : ManageSharedRefused(a, o, i)
  \/ \E vi \in 1..MaxViews, a \in Users, i \in 1..MaxVps : SelectVps(vi, a, i)
  \/ \E vi \in 1..MaxViews, a \in Users, action \in ViewActions : ViewDenied(vi, a, action)
  \/ \E vi \in 1..MaxViews, a \in Users, action \in ViewActions : ViewError(vi, a, action)
  \/ \E vi \in 1..MaxViews, a \in Users : ViewStats(vi, a)
  \/ NoTasks /\ \E vi \in 1..MaxViews, a \in Users, action \in {"start", "stop"} :
       ViewStartStopBegin(vi, a, action)
  \/ \E n \in 1..MaxTasks, ok \in BOOLEAN : ViewStartStopFinish(n, ok)
  \/ \E vi \in 1..MaxViews, a \in Users : ReinstallRequest(vi, a)
  \/ NoTasks /\ \E ci \in 1..MaxViews : ConfirmBegin(ci)
  \/ \E n \in 1..MaxTasks, k \in {0, 6} : ConfirmFinish(n, k)
  \/ \E ci \in 1..MaxViews : ConfirmDismiss(ci)
  \/ NoTasks /\ \E a \in Users, u \in Guests, i \in 1..MaxVps : ShareUser(a, u, i)
  \/ NoTasks /\ \E a \in Users, u \in Guests, i \in 1..MaxVps : RevokeShare(a, u, i)
  \/ NoTasks /\ \E a \in Users, u \in Owners : DeleteBegin(a, u, 1)
  \/ \E n \in 1..MaxTasks, ok \in BOOLEAN, wait \in BOOLEAN : DeleteFinish(n, ok, wait)
  \/ \E n \in 1..MaxTasks, done \in BOOLEAN : DeleteRoleDone(n, done)
  \/ \E a \in Users : AdminCheckFails(a, "delete-vps")
  \/ SaveData

SpecAccess == InitLoaded /\ [][NextAccess]_vars

\* the relations of an actor to the dict x
OwnerOf(a, x) == x \in Range(vps_data[a])

SharedOnly(a, x) ==
  /\ x \in DOMAIN heap
  /\ a \in Range(heap[x].shared_with)
  /\ ~OwnerOf(a, x)
  /\ ~IsAdmin(a)

\* the coroutines and confirmations a step has added
NewTasks == {tasks'[n] : n \in (Len(tasks) + 1)..Len(tasks')}

NewConfirms == {confirms'[n] : n \in (Len(confirms) + 1)..Len(confirms')}

\* C5: an actor who is in shared_with of a container, and is neither its
\* owner nor an admin, opens no reinstall confirmation and starts no reinstall
\* and no delete of it, and no step of that actor changes its shared_with list
\* or takes it out of the registry.
C5_SharedNeverReinstallsSharesDeletes ==
  [][/\ \A c \in NewConfirms : ~SharedOnly(c.actor, c.oid)
     /\ \A t \in NewTasks : t.op \in {"reinstall", "delete"} => ~SharedOnly(t.actor, t.oid)
     /\ \A x \in ListOids(vps_data) :
          \/ x \in ListOids(vps_data') /\ heap'[x].shared_with = heap[x].shared_with
          \/ ~SharedOnly(ev'.actor, x)]_vars

\* a guest with a share has pressed Reinstall and been denied
C5_Witness ==
  /\ ev.op = "reinstall" /\ ev.out = "denied"
  /\ \E x \in ListOids(vps_data) : SharedOnly(ev.actor, x)

\* C6: a start or stop is begun only by an actor who at that time is the
\* owner of the container, is in its shared_with list, or is an admin.
C6_StartStopOnlyIfPermitted ==
  [][\A t \in NewTasks :
       t.op \in {"start", "stop"} =>
         \/ OwnerOf(t.actor, t.oid)
         \/ t.actor \in Range(heap[t.oid].shared_with)
         \/ IsAdmin(t.actor)]_vars

\* C7: the main admin who presses Reinstall, while every open view shows a
\* container that is not suspended, is not denied.
C7_MainAdminMayReinstall ==
  [][(/\ ev' # ev
      /\ ev'.actor = MAIN_ADMIN_ID
      /\ ev'.op = "reinstall"
      /\ \A vi \in 1..Len(views) :
           TargetOid(views[vi]) # 0 /\ ~heap[TargetOid(views[vi])].suspended)
       => ev'.out # "denied"]_vars

\* C10: when the runtime call of a start or stop has failed, the dict is what
\* it was when the action was pressed.
C10_FailedCallLeavesRecord ==
  [][\A n \in 1..Len(tasks) :
       (/\ tasks' = RemoveAt(tasks, n)
        /\ tasks[n].op \in {"start", "stop"}
        /\ ev'.out = "failed"
        /\ tasks[n].oid \in DOMAIN heap')
         => heap'[tasks[n].oid] = tasks[n].was]_vars

\* ------------------------- the host monitor's thread beside the event loop
NextThreads ==
  \/ \E cpu_usage \in Readings : HostSample(cpu_usage)
  \/ \E ok \in BOOLEAN : HostStopAll(ok)
  \/ HostMark
  \/ \E ok \in BOOLEAN : HostSave(ok)
  \/ MonSweep
  \/ \E cpu \in Readings, ram \in Readings : MonSample(cpu, ram)
  \/ \E ok \in BOOLEAN : MonStopDone(ok)
  \/ \E sent \in BOOLEAN : MonNotify(sent)
  \/ \E a \in Owners, u \in Guests, i \in 1..MaxVps : ShareUser(a, u, i)
  \/ \E a \in Owners, u \in Guests, i \in 1..MaxVps : RevokeShare(a, u, i)
  \/ SaveData
  \/ SaveDataFails

SpecThreads == InitLoaded /\ [][NextThreads]_vars

\* cpu_monitor is between its first write to a dict and its save_data()
HostInProgress == host.pc = "save" \/ (host.pc = "mark" /\ host.ki > 0)

\* C3: the host monitor is never between its marking and its save while the
\* event loop (a handler or vps_monitor) is between a write to the registry
\* and its save.
C3_MutateThenSaveExclusive == ~(saving /\ HostInProgress)

\* ------------------- the owner's start and stop beside the workload monitor
NextOverlap ==
  \/ \E a \in Owners : ManageOwn(a)
  \/ \E vi \in 1..MaxViews, i \in 1..MaxVps : SelectVps(vi, views[vi].user_id, i)
  \/ \E vi \in 1..MaxViews, action \in {"start", "stop"} :
       ViewStartStopBegin(vi, views[vi].user_id, action)
  \/ \E n \in 1..MaxTasks, ok \in BOOLEAN : ViewStartStopFinish(n, ok)
  \/ \E vi \in 1..MaxViews, action \in {"start", "stop"} :
       ViewDenied(vi, views[vi].user_id, action)
  \/ MonSweep
  \/ \E cpu \in Readings, ram \in Readings : MonSample(cpu, ram)
  \/ \E ok \in BOOLEAN : MonStopDone(ok)
  \/ \E sent \in BOOLEAN : MonNotify(sent)
  \/ SaveData

SpecOverlap == InitLoaded /\ [][NextOverlap]_vars

\* C4: no record of the registry is left with status 'stopped' and the
\* suspended flag set, the mix of the owner's stop and the monitor's suspend.
C4_StopAndSuspendSerial ==
  \A x \in ListOids(vps_data) : ~(heap[x].status = "stopped" /\ heap[x].suspended)

\* ------------------------------------------- the admin's suspend and unsuspend
\* the names of the loaded containers and one that no record has
AskedNames == AllNames \cup {ContainerName(MAIN_ADMIN_ID, 1)}

NextSuspend ==
  \/ \E a \in Users : AdminCheckFails(a, "unsuspend")
  \/ \E a \in Users, name \in AskedNames : SuspendRefused(a, name)
  \/ \E a \in Users, name \in AskedNames : SuspendBegin(a, name)
  \/ \E n \in 1..MaxTasks, ok \in BOOLEAN : SuspendFinish(n, ok)
  \/ \E a \in Users, name \in AskedNames : UnsuspendRefused(a, name)
  \/ \E a \in Users, name \in AskedNames : UnsuspendBegin(a, name)
  \/ \E n \in 1..MaxTasks, ok \in BOOLEAN : UnsuspendFinish(n, ok)
  \/ SaveData

SpecSuspend == InitLoaded /\ [][NextSuspend]_vars

\* the unsuspend whose lxc start has ended in this step
EndedUnsuspends ==
  {n \in 1..Len(tasks) :
     /\ tasks[n].op = "unsuspend"
     /\ \/ tasks' = RemoveAt(tasks, n)
        \/ Len(tasks') = Len(tasks) /\ tasks'[n] # tasks[n]}

\* C11: when the lxc start of an unsuspend has failed, the dict is what it was
\* before the unsuspend: status 'suspended' and the suspended flag set.
C11_FailedUnsuspendLeavesRecord ==
  [][\A n \in EndedUnsuspends :
       (ev'.op = "unsuspend" /\ ev'.out = "failed" /\ tasks[n].oid \in DOMAIN heap')
         => /\ heap'[tasks[n].oid] = tasks[n].was
            /\ heap'[tasks[n].oid].status = "suspended"
            /\ heap'[tasks[n].oid].suspended]_vars

\* C12: an unsuspend of a container whose record is not suspended is answered
\* "not suspended" and starts no coroutine, issues no runtime call and changes
\* no dict; an unsuspend that does issue lxc start found the record suspended
\* and leaves it not suspended, so the next one in a row issues none.
C12_UnsuspendOfRunningIsNoOp ==
  [][/\ \A t \in NewTasks :
          t.op = "unsuspend" => heap[t.oid].suspended /\ ~heap'[t.oid].suspended
     /\ (/\ ev' # ev
         /\ ev'.op = "unsuspend"
         /\ ev'.calls = <<>>
         /\ IsAdmin(ev'.actor)
         /\ FindVps(ev'.name)[2] # 0
         /\ ~RecAt(FindVps(ev'.name)[1], FindVps(ev'.name)[2]).suspended)
          => /\ ev'.out = "not-suspended"
             /\ UNCHANGED <<regVars, rt, tasks, files>>]_vars

\* a second unsuspend of a container that the first one has started
C12_Witness ==
  /\ ev.op = "unsuspend" /\ ev.out = "not-suspended"
  /\ \E x \in ListOids(vps_data) :
       /\ heap[x].container_name = ev.name
       /\ heap[x].status = "running" /\ ~heap[x].suspended
       /\ heap[x].suspension_history # <<>>
       /\ heap[x].container_name \in rt.running

\* ------------------------------------------------- the workload monitor's sweep
\* (the following properties are about SpecOverlap, where mon changes in the
\* steps of vps_monitor only)
\* lxc stop of the monitor has succeeded in this step
MonStopped == mon.pc = "stop" /\ mon'.pc = "notify"

\* C13: when the monitor's lxc stop of a sampled record has succeeded, the dict
\* has status 'suspended' and the suspended flag, its suspension_history is the
\* old one with one more entry, by "UnixNodes Auto-System", and save_data
\* follows and writes the registry; the end of the DM to the owner, sent or
\* not, changes no record and no document.
C13_AutoSuspendRecorded ==
  [][/\ MonStopped =>
          LET old == heap[mon.oid].suspension_history
              new == heap'[mon.oid].suspension_history
          IN  /\ heap'[mon.oid].status = "suspended"
              /\ heap'[mon.oid].suspended
              /\ Len(new) = Len(old) + 1
              /\ SubSeq(new, 1, Len(old)) = old
              /\ new[Len(new)].by = "UnixNodes Auto-System"
              /\ saving'
     /\ (mon.pc = "notify" /\ saving /\ ~saving') => files' = Snapshot'
     /\ (mon.pc = "notify" /\ mon'.pc # "notify") =>
          /\ files' = files
          /\ \A x \in ListOids(vps_data) : heap'[x] = heap[x]]_vars

\* the monitor has suspended a container that ran above a threshold, and the
\* registry has been saved
C13_Witness ==
  /\ mon.pc = "notify" /\ ~saving
  /\ mon.cpu > CPU_THRESHOLD \/ mon.ram > RAM_THRESHOLD
  /\ heap[mon.oid].suspended /\ heap[mon.oid].status = "suspended"
  /\ files = Snapshot
  /\ mon.name \notin rt.running

\* C14: the monitor samples a record only if it has status 'running' and is
\* not suspended, issues lxc stop only for the record it sampled and only with
\* a reading above a threshold, and no step of the monitor changes another dict
\* or the runtime otherwise.
C14_MonitorSkipsOthers ==
  [][/\ (mon' # mon /\ mon'.pc = "sample") =>
          heap'[mon'.oid].status = "running" /\ ~heap'[mon'.oid].suspended
     /\ (mon.pc = "sample" /\ mon'.pc = "stop") =>
          /\ mon'.oid = mon.oid
          /\ mon'.cpu > CPU_THRESHOLD \/ mon'.ram > RAM_THRESHOLD
     /\ mon'.pc = "stop" => mon.pc \in {"sample", "stop"}
     /\ mon' # mon =>
          /\ \A x \in ListOids(vps_data) : heap'[x] # heap[x] => x = mon.oid /\ MonStopped
          /\ rt' # rt => MonStopped /\ rt' = Effect(rt, Call("stop", mon.name))]_vars

\* the sweep has passed over a record that is suspended or not running and
\* samples the next one
C14_Witness ==
  /\ mon.pc = "sample" /\ mon.li > 1
  /\ \E i \in 1..(mon.li - 1) :
       LET vps == RecAt(vps_keys[mon.ki], i)
       IN  vps.suspended \/ vps.status # "running"

\* the resources a reason names
ReasonNames(reason) ==
  (IF reason[1] = "High resource usage: CPU " THEN {"CPU"} ELSE {})
    \cup (IF reason[3] = "%, RAM " THEN {"RAM"} ELSE {})

\* the resources above their threshold
Exceeded(cpu, ram) ==
  (IF cpu > CPU_THRESHOLD THEN {"CPU"} ELSE {})
    \cup (IF ram > RAM_THRESHOLD THEN {"RAM"} ELSE {})

\* C15: the reason of the entry the monitor appends names the resources that
\* were above their threshold, and no other.
C15_ReasonNamesExceeded ==
  [][MonStopped =>
       LET h == heap'[mon.oid].suspension_history
       IN  ReasonNames(h[Len(h)].reason) = Exceeded(mon.cpu, mon.ram)]_vars

\* --------------------------- the host monitor's thread beside create commands
NextHost ==
  \/ \E cpu_usage \in Readings : HostSample(cpu_usage)
  \/ \E ok \in BOOLEAN : HostStopAll(ok)
  \/ HostMark
  \/ \E ok \in BOOLEAN : HostSave(ok)
  \/ \E user \in Guests : CreateBegin(MAIN_ADMIN_ID, 1, 1, 1, user)
  \/ \E n \in 1..MaxTasks, k \in {0, 5} : CreateFinish(n, k)
  \/ SaveData

SpecHost == InitLoaded /\ [][NextHost]_vars

\* the loop over vps_data.items() of cpu_monitor has ended in this step
HostMarkEnds == host.pc = "mark" /\ host'.pc # "mark"

\* C16: a host sample above the threshold is followed by one lxc stop --all
\* --force; when that has succeeded the marking ends in save_data() with no
\* container of the loaded registry left 'running', and it changes no dict
\* that is not 'running'; a sample at or below the threshold changes nothing.
C16_BreachStopsAndMarksAll ==
  [][/\ (host.pc = "sleep" /\ host' # host) =>
          /\ host'.pc = "stopall" <=> ev'.out = "breach"
          /\ rt' = rt /\ heap' = heap /\ files' = files
     /\ (host.pc = "stopall" /\ host' # host) =>
          /\ ev'.calls = <<Call("stopall", NoName)>>
          /\ host'.pc = "mark" <=> ev'.out = "stopped-all"
     /\ HostMarkEnds =>
          /\ host'.pc = "save"
          /\ \A o \in Owners : \A x \in Range(vps_data[o]) : heap'[x].status # "running"
     /\ (host.pc = "mark" /\ host' # host) =>
          \A x \in DOMAIN heap : heap[x].status # "running" => heap'[x] = heap[x]
     /\ (host.pc = "save" /\ host' # host /\ files' # files) => files' = Snapshot]_vars

\* ----------------------- both monitors beside a command that adds a key
NextMonitors ==
  \/ \E cpu_usage \in Readings : HostSample(cpu_usage)
  \/ \E ok \in BOOLEAN : HostStopAll(ok)
  \/ HostMark
  \/ HostSave(TRUE)
  \/ MonSweep
  \/ \E cpu \in Readings, ram \in Readings : MonSample(cpu, ram)
  \/ \E ok \in BOOLEAN : MonStopDone(ok)
  \/ \E sent \in BOOLEAN : MonNotify(sent)
  \/ NoTasks /\ \E user \in Guests : CreateBegin(MAIN_ADMIN_ID, 1, 1, 1, user)
  \/ \E n \in 1..MaxTasks : CreateFinish(n, 0)
  \/ SaveData

SpecMonitors == InitLoaded /\ [][NextMonitors]_vars

\* The thread of cpu_monitor is scheduled by the system whatever the event
\* loop does; the event loop resumes every coroutine that is ready, in turn,
\* and save_data returns.
HostStep ==
  \/ \E cpu_usage \in Readings : HostSample(cpu_usage)
  \/ \E ok \in BOOLEAN : HostStopAll(ok)
  \/ HostMark
  \/ HostSave(TRUE)

MonStep ==
  \/ MonSweep
  \/ \E cpu \in Readings, ram \in Readings : MonSample(cpu, ram)
  \/ \E ok \in BOOLEAN : MonStopDone(ok)
  \/ \E sent \in BOOLEAN : MonNotify(sent)

SpecMonitorsLive ==
  /\ InitLoaded
  /\ [][NextMonitors]_vars
  /\ WF_vars(HostStep)
  /\ SF_vars(MonStep)
  /\ WF_vars(SaveData)

\* C17: neither monitor ever ends; the host monitor is asleep again and again
\* and after an error of its stop-all or of its loop over the registry it
\* samples anew; every sweep of the workload monitor ends, and after an error
\* raised by the iteration of the registry a new sweep begins.
C17_MonitorsNeverStop ==
  /\ [](host.pc # "dead" /\ mon.pc # "dead")
  /\ []<>(host.pc = "sleep")
  /\ []<>(mon.pc = "idle")
  /\ (ev.op = "host" /\ ev.out \in {"error", "failed"})
       ~> (ev.op = "host" /\ ev.out \in {"calm", "breach"})
  /\ (ev.op = "monitor" /\ ev.out \in {"error", "failed"}) ~> (mon.pc = "idle")
  /\ (ev.op = "monitor" /\ ev.out = "error")
       ~> (ev.op = "monitor" /\ ev.out \in {"sampling", "end"})

\* the size of vps_data has changed under the sweep of the workload monitor:
\* the iteration has raised and the monitor is asleep
C17_Witness ==
  /\ ev.op = "monitor" /\ ev.out = "error"
  /\ mon.pc = "idle"
  /\ Len(vps_keys) > Cardinality(Owners)

\* ------------------ the workload monitor beside create and delete commands
NextSweep ==
  \/ MonSweep
  \/ \E cpu \in Readings, ram \in Readings : MonSample(cpu, ram)
  \/ \E ok \in BOOLEAN : MonStopDone(ok)
  \/ \E sent \in BOOLEAN : MonNotify(sent)
  \/ NoTasks /\ \E user \in Guests : CreateBegin(MAIN_ADMIN_ID, 1, 1, 1, user)
  \/ \E n \in 1..MaxTasks, k \in {0, 5} : CreateFinish(n, k)
  \/ NoTasks /\ \E user \in Owners, i \in 1..MaxVps : DeleteBegin(MAIN_ADMIN_ID, user, i)
  \/ \E n \in 1..MaxTasks, ok \in BOOLEAN, wait \in BOOLEAN : DeleteFinish(n, ok, wait)
  \/ \E n \in 1..MaxTasks, done \in BOOLEAN : DeleteRoleDone(n, done)
  \/ SaveData

SpecSweep == InitLoaded /\ [][NextSweep]_vars

\* the sweep of the workload monitor has ended in this step
SweepEnds == mon.pc # "idle" /\ mon'.pc = "idle"

\* C18: when a sweep ends, whether or not an lxc stop of it has failed, every
\* container of the loaded registry that is 'running' and not suspended has
\* been sampled in it.
C18_SweepEvaluatesAll ==
  [][SweepEnds =>
       \A o \in Owners : \A x \in Range(vps_data'[o]) :
         (heap'[x].status = "running" /\ ~heap'[x].suspended)
           => x \in mon.seen \cup {mon.oid}]_vars

\* ----------------------------- the reinstall beside the workload monitor
NextReinstall ==
  \/ \E a \in Owners : ManageOwn(a)
  \/ \E vi \in 1..MaxViews, i \in 1..MaxVps : SelectVps(vi, views[vi].user_id, i)
  \/ \E vi \in 1..MaxViews : ReinstallRequest(vi, views[vi].user_id)
  \/ \E vi \in 1..MaxViews : ViewDenied(vi, views[vi].user_id, "reinstall")
  \/ NoTasks /\ \E ci \in 1..MaxViews : ConfirmBegin(ci)
  \/ \E n \in 1..MaxTasks, k \in {0, 1, 6} : ConfirmFinish(n, k)
  \/ \E ci \in 1..MaxViews : ConfirmDismiss(ci)
  \/ MonSweep
  \/ \E cpu \in Readings, ram \in Readings : MonSample(cpu, ram)
  \/ \E ok \in BOOLEAN : MonStopDone(ok)
  \/ \E sent \in BOOLEAN : MonNotify(sent)
  \/ SaveData

SpecReinstall == InitLoaded /\ [][NextReinstall]_vars

\* C19: no reinstall is begun (its lxc delete issued) for a container whose
\* record is suspended at that time, and no reinstall clears the suspended
\* flag of a record.
C19_NoReinstallWhileSuspended ==
  [][/\ \A t \in NewTasks : t.op = "reinstall" => ~heap[t.oid].suspended
     /\ \A n \in 1..Len(tasks) :
          (tasks[n].op = "reinstall" /\ tasks' = RemoveAt(tasks, n)
             /\ tasks[n].oid \in DOMAIN heap')
            => heap'[tasks[n].oid].suspended = heap[tasks[n].oid].suspended]_vars

\* ------------------------------------- the two confirmation-gated actions
NextConfirm ==
  \/ \E a \in Owners : ManageOwn(a)
  \/ \E vi \in 1..MaxViews, i \in 1..MaxVps : SelectVps(vi, views[vi].user_id, i)
  \/ \E vi \in 1..MaxViews : ReinstallRequest(vi, views[vi].user_id)
  \/ NoTasks /\ \E ci \in 1..MaxViews : ConfirmBegin(ci)
  \/ \E n \in 1..MaxTasks, k \in {0, 6} : ConfirmFinish(n, k)
  \/ \E ci \in 1..MaxViews : ConfirmDismiss(ci)
  \/ \E a \in Users : StopAllRequest(a)
  \/ \E a \in Users : AdminCheckFails(a, "stop-all")
  \/ \E ci \in 1..MaxViews, a \in Users : StopAllCancel(ci, a)
  \/ NoTasks /\ \E ci \in 1..MaxViews, a \in Users : StopAllBegin(ci, a)
  \/ \E n \in 1..MaxTasks, ok \in BOOLEAN : StopAllFinish(n, ok)
  \/ SaveData

SpecConfirm == InitLoaded /\ [][NextConfirm]_vars

\* the pending confirmations a coroutine of the given kind can come from
PendingFor(t) ==
  {ci \in 1..Len(confirms) :
     /\ confirms[ci].kind = t.op
     /\ ~confirms[ci].cancelled
     /\ t.op = "reinstall" => confirms[ci].oid = t.oid /\ confirms[ci].actor = t.actor}

\* C20: a reinstall or a stop of all containers is begun only by the Confirm
\* button of a ConfirmView that is pending: not cancelled, not timed out; and
\* the Cancel button or the timeout issues no runtime call and changes no
\* record.
C20_OnlyPendingConfirmExecutes ==
  [][/\ \A t \in NewTasks : t.op \in {"reinstall", "stop-all"} => PendingFor(t) # {}
     /\ (confirms' # confirms /\ Len(confirms') <= Len(confirms)) =>
          /\ rt' = rt /\ tasks' = tasks /\ files' = files
          /\ \A x \in ListOids(vps_data) : heap'[x] = heap[x]]_vars

\* C21: a reinstall whose six gateway calls all succeed leaves its record with
\* status "running", suspended false and a later created_at; every other field
\* of the record (ram, cpu, storage, config, container_name, shared_with,
\* suspension_history) is as it was, the new container carries the limits of
\* the record, and every other record and the lists of the registry are
\* unchanged.
C21_ReinstallFrame ==
  [][\A n \in 1..Len(tasks) :
       (/\ tasks[n].op = "reinstall"
        /\ tasks' = RemoveAt(tasks, n)
        /\ ev'.op = "reinstall" /\ ev'.out = "ok"
        /\ tasks[n].oid \in DOMAIN heap')
         => LET x == tasks[n].oid
                vps == heap'[x]
            IN  /\ vps = [heap[x] EXCEPT !.status = "running", !.suspended = FALSE,
                                         !.created_at = clock']
                /\ clock' > heap[x].created_at
                /\ \A y \in DOMAIN heap' \ {x} : heap'[y] = heap[y]
                /\ vps_data' = vps_data /\ vps_keys' = vps_keys
                /\ vps.container_name \in rt'.running
                /\ LimitsOf(rt', vps.container_name) =
                     [mem |-> vps.ram[1] * 1024, cpu |-> vps.cpu[1],
                      dsk |-> vps.storage[1]]]_vars

\* a reinstall has succeeded on a record the monitor had suspended before: the
\* record is running again and keeps its history
C21_Witness ==
  /\ ev.op = "reinstall" /\ ev.out = "ok"
  /\ \E x \in ListOids(vps_data) :
       /\ heap[x].container_name = ev.name
       /\ heap[x].status = "running" /\ ~heap[x].suspended
       /\ heap[x].created_at = clock
       /\ heap[x].suspension_history # <<>>

\* C22: when a gateway call of a reinstall or of a migration fails after earlier
\* calls of the sequence have succeeded, no record of the container is left
\* with status "running" while the container is deleted or stopped.
C22_PartialFailureRecorded ==
  [][\A n \in 1..Len(tasks) :
       (/\ tasks[n].op \in {"reinstall", "migrate"}
        /\ tasks' = RemoveAt(tasks, n)
        /\ ev'.op = tasks[n].op /\ ev'.out = "failed"
        /\ Len(ev'.calls) > 1)
         => \A x \in ListOids(vps_data') :
              (heap'[x].container_name = tasks[n].name /\ heap'[x].status = "running")
                => tasks[n].name \in rt'.running]_vars

\* ------------------------------- the resource commands, one after another
\* the commands are about the first container of the owner, which vps_data.json
\* holds running or suspended
ResArgs == {None, 0 - 1, 1}

NextResize ==
  \/ \E a \in Users, op \in ResizeOps : AdminCheckFails(a, op)
  \/ \E op \in ResizeOps : ResizeMissing(MAIN_ADMIN_ID, op)
  \/ \E op \in ResizeOps, ram \in ResArgs :
       ResizeNotFound(MAIN_ADMIN_ID, op, ContainerName(MaxUser, 1), ram, None, None)
  \/ NoTasks /\ \E op \in ResizeOps, name \in GivenNames, ram \in ResArgs,
                   cpu \in {None, 1}, dsk \in {None, 1} :
       ResizeBegin(MAIN_ADMIN_ID, op, name, ram, cpu, dsk)
  \/ \E n \in 1..MaxTasks, ok \in BOOLEAN : ResizeStopDone(n, ok)
  \/ \E n \in 1..MaxTasks, k \in 0..3 : ResizeSetDone(n, k)
  \/ \E n \in 1..MaxTasks, ok \in BOOLEAN : ResizeStartDone(n, ok)
  \/ \E ram \in ResArgs, cpu \in {0, 1} : CreateInvalid(MAIN_ADMIN_ID, ram, cpu, 1, MaxUser)
  \/ NoTasks /\ CreateBegin(MAIN_ADMIN_ID, 1, 1, 1, MaxUser)
  \/ \E n \in 1..MaxTasks, k \in {0, 5} : CreateFinish(n, k)
  \/ SaveData

SpecResize == InitLoaded /\ [][NextResize]_vars

\* the limits a record stands for
RecordLimits(vps) ==
  [mem |-> vps.ram[1] * 1024, cpu |-> vps.cpu[1], dsk |-> vps.storage[1]]

\* C23: when add-resources or resize-vps fails after at least one limit was
\* applied, the ram, cpu and storage of the record are the limits in force in
\* the runtime and its status is the state of the container.
C23_PartialResizeRecorded ==
  [][\A n \in 1..Len(tasks) :
       (/\ tasks[n].op \in ResizeOps
        /\ tasks' = RemoveAt(tasks, n)
        /\ ev'.op = tasks[n].op /\ ev'.out = "failed"
        /\ (tasks[n].pc = "set" /\ Len(ev'.calls) > 1) \/ tasks[n].pc = "start"
        /\ tasks[n].oid \in DOMAIN heap')
         => LET vps == heap'[tasks[n].oid]
            IN  /\ LimitsOf(rt', tasks[n].name) = RecordLimits(vps)
                /\ vps.status = "running" <=> tasks[n].name \in rt'.running]_vars

\* C24: an add-resources command that succeeds with a positive ram argument d
\* and no cpu and disk argument leaves the record as the command found it
\* except ram, which is r + d, and config, which is built from the new values:
\* cpu, storage, container_name, shared_with, suspension_history, created_at,
\* suspended and status are as before, the record is where it was in its
\* owner's list, and the memory limit of the container is (r + d) * 1024 MB.
C24_AddRamOnly ==
  [][\A n \in 1..Len(tasks) :
       (/\ tasks[n].op = "add-resources"
        /\ tasks' = RemoveAt(tasks, n)
        /\ ev'.op = "add-resources" /\ ev'.out = "ok"
        /\ tasks[n].ram > 0 /\ tasks[n].cpu = None /\ tasks[n].dsk = None)
         => LET t == tasks[n]
                r == t.was.ram[1]
            IN  /\ t.oid \in DOMAIN heap'
                /\ heap'[t.oid] =
                     [t.was EXCEPT !.ram = <<r + t.ram, "GB">>,
                                   !.config = <<r + t.ram, "GB RAM / ", t.was.cpu[1],
                                                " CPU / ", t.was.storage[1], "GB Disk">>]
                /\ vps_data' = vps_data /\ vps_data[t.uid][t.idx] = t.oid
                /\ LimitsOf(rt', t.name).mem = (r + t.ram) * 1024]_vars

\* add-resources with 1 GB of ram has succeeded on a running container of
\* 1 GB: it was stopped and started again and is recorded running with 2GB
C24_Witness ==
  /\ ev.op = "add-resources" /\ ev.out = "ok"
  /\ ev.calls = <<Call("start", ev.name)>>
  /\ \E x \in ListOids(vps_data) :
       /\ heap[x].container_name = ev.name
       /\ heap[x].ram = FmtGB(2) /\ heap[x].cpu = StrOf(1) /\ heap[x].storage = FmtGB(1)
       /\ heap[x].status = "running"

\* C25: the ram, cpu and storage of every record are positive in every reachable
\* state; a create command with a non-positive value is answered without a
\* gateway call and without a record or a task; and a value of a record changes
\* only in a step of an add-resources or resize-vps command on that record
\* whose argument for that value is given and positive.
C25_ResourcesPositive ==
  /\ [](\A x \in DOMAIN heap :
          heap[x].ram[1] > 0 /\ heap[x].cpu[1] > 0 /\ heap[x].storage[1] > 0)
  /\ [][(ev'.op = "create" /\ ev'.out = "invalid")
          => UNCHANGED <<vps_data, vps_keys, heap, rt, tasks, files>>]_vars
  /\ [][\A i \in 1..Len(tasks') :
          tasks'[i].op = "create"
            => tasks'[i].ram > 0 /\ tasks'[i].cpu > 0 /\ tasks'[i].dsk > 0]_vars
  /\ [][\A x \in DOMAIN heap \cap DOMAIN heap' :
          LET Arg(a) == \E n \in 1..Len(tasks) :
                          /\ tasks[n].op \in ResizeOps /\ tasks[n].oid = x
                          /\ a[n] # None /\ a[n] > 0
          IN  /\ heap'[x].ram # heap[x].ram => Arg([n \in 1..Len(tasks) |-> tasks[n].ram])
              /\ heap'[x].cpu # heap[x].cpu => Arg([n \in 1..Len(tasks) |-> tasks[n].cpu])
              /\ heap'[x].storage # heap[x].storage
                   => Arg([n \in 1..Len(tasks) |-> tasks[n].dsk])]_vars

\* a resize-vps command with a cpu of 1 and a ram that is missing or not
\* positive has succeeded on a container of 2 GB: the cpu is 1, the ram 2GB
C25_Witness ==
  /\ ev.op = "resize-vps" /\ ev.out = "ok"
  /\ \E x \in ListOids(vps_data) :
       /\ heap[x].container_name = ev.name
       /\ heap[x].ram = FmtGB(2) /\ heap[x].cpu = StrOf(1)
  /\ \E i \in 1..Len(ev.calls) : ev.calls[i] = Call2("set_cpu", ev.name, 1)
  /\ ~\E i \in 1..Len(ev.calls) : ev.calls[i].verb = "set_mem"

\* ------------------- delete beside the commands that write to the lists
\* two commands of the main admin can be in progress at a time
NextRemoval ==
  \/ \E user \in Owners, i \in 1..MaxVps : DeleteBegin(MAIN_ADMIN_ID, user, i)
  \/ \E user \in Owners, i \in 1..MaxVps : DeleteInvalid(MAIN_ADMIN_ID, user, i)
  \/ \E n \in 1..MaxTasks, ok \in BOOLEAN, wait \in BOOLEAN : DeleteFinish(n, ok, wait)
  \/ \E n \in 1..MaxTasks, done \in BOOLEAN : DeleteRoleDone(n, done)
  \/ \E name \in AllNames : ResizeBegin(MAIN_ADMIN_ID, "resize-vps", name, 1, None, None)
  \/ \E n \in 1..MaxTasks, ok \in BOOLEAN : ResizeStopDone(n, ok)
  \/ \E n \in 1..MaxTasks, k \in 0..1 : ResizeSetDone(n, k)
  \/ \E n \in 1..MaxTasks, ok \in BOOLEAN : ResizeStartDone(n, ok)
  \/ \E name \in AllNames :
       /\ Len(vps_data[FindVps(name)[1]]) < MaxVps
       /\ CloneBegin(MAIN_ADMIN_ID, name, FALSE, NoName)
  \/ \E n \in 1..MaxTasks, k \in {0, 2} : CloneFinish(n, k)
  \/ SaveData

SpecRemoval == InitLoaded /\ [][NextRemoval]_vars

\* C26: a record leaves the registry only in the step of a delete command for
\* its container whose runtime delete has succeeded; a delete command whose
\* runtime delete fails leaves the registry as it is; and when the record
\* removed was the last of its owner, the owner's key is removed with it.
C26_RemovedOnlyByDelete ==
  /\ [][\A x \in ListOids(vps_data) \ ListOids(vps_data') :
          \E n \in 1..Len(tasks) :
            /\ tasks[n].op = "delete"
            /\ tasks[n].name = heap[x].container_name
            /\ tasks' = RemoveAt(tasks, n) \/ tasks' = [tasks EXCEPT ![n].op = "delete-role"]
            /\ ev'.op = "delete" /\ ev'.out \in {"ok", "removing-role"}
            /\ tasks[n].name \notin rt'.exists]_vars
  /\ [][(ev'.op = "delete" /\ ev'.out = "failed" /\ ev'.calls # <<>>)
          => (vps_data' = vps_data /\ vps_keys' = vps_keys)]_vars
  /\ [](\A o \in Users : HasKey(o) /\ vps_data[o] = <<>> => \E n \in 1..Len(tasks) : tasks[n].op = "create")

\* --------------------------------------- sharing, with any member as grantee
NextShare ==
  \/ \E a \in Users, u \in Users, i \in 1..MaxVps : ShareUser(a, u, i)
  \/ \E a \in Users, u \in Users, i \in 1..MaxVps : RevokeShare(a, u, i)
  \/ SaveData

SpecShare == InitLoaded /\ [][NextShare]_vars

\* C27: the shared_with of no record contains the owner of the record.
C27_OwnerNotInSharedWith ==
  \A s \in AllSlots : s[1] \notin Range(RecAt(s[1], s[2]).shared_with)

\* no command is in progress, the event loop is not about to save, and both
\* monitors are asleep
Quiescent == tasks = <<>> /\ ~saving /\ mon.pc = "idle" /\ host.pc = "sleep"

\* C28: whenever no command and no monitor step is in progress, the two
\* documents hold the registry and the admin list as they are in memory.
C28_PersistedWhenQuiescent == Quiescent => files = Snapshot

\* ------------------------- commands that save, with a store that can fail
NextStore ==
  \/ NoTasks /\ \E user \in Guests : CreateBegin(MAIN_ADMIN_ID, 1, 1, 1, user)
  \/ \E n \in 1..MaxTasks, k \in {0, 5} : CreateFinish(n, k)
  \/ \E a \in Owners, u \in Guests, i \in 1..MaxVps : ShareUser(a, u, i)
  \/ \E a \in Owners, u \in Guests, i \in 1..MaxVps : RevokeShare(a, u, i)
  \/ SaveData
  \/ SaveDataFails

SpecStore == InitLoaded /\ [][NextStore]_vars

\* C29: when the write of save_data fails and the documents are left behind the
\* registry, the outcome of the command that called it is a failure.
C29_FailedWriteReported ==
  [][(saving /\ ~saving' /\ files' # Snapshot') => ev'.out = "failed"]_vars

\* --------------------------------- the answers of unsuspend and restart
NextOutcome ==
  \/ \E a \in Users, op \in {"unsuspend", "restart"} : AdminCheckFails(a, op)
  \/ \E name \in AskedNames : UnsuspendRefused(MAIN_ADMIN_ID, name)
  \/ NoTasks /\ \E name \in AskedNames : UnsuspendBegin(MAIN_ADMIN_ID, name)
  \/ \E n \in 1..MaxTasks, ok \in BOOLEAN : UnsuspendFinish(n, ok)
  \/ NoTasks /\ \E name \in AskedNames : RestartBegin(MAIN_ADMIN_ID, name)
  \/ \E n \in 1..MaxTasks, ok \in BOOLEAN : RestartFinish(n, ok)
  \/ NoTasks /\ \E name \in AskedNames : SuspendBegin(MAIN_ADMIN_ID, name)
  \/ \E n \in 1..MaxTasks, ok \in BOOLEAN : SuspendFinish(n, ok)
  \/ SaveData

SpecOutcome == InitLoaded /\ [][NextOutcome]_vars

\* C30: no invocation sends two outcome messages, and an
\* unsuspend of a container the registry has a record of is never answered
\* "Not Found", whether lxc start succeeds or fails.
C30_OneOutcome ==
  [][/\ ev'.also = "none"
     /\ (ev'.op = "unsuspend" /\ ev'.name \in AllNames)
          => (ev'.out # "notfound" /\ ev'.also # "notfound")]_vars

\* ------------------------- every operation on a record, one after another
\* no command is in progress and the workload monitor is between two sweeps
InTurn == tasks = <<>> /\ mon.pc = "idle"

NextHistory ==
  \/ InTurn /\ \E name \in GivenNames : SuspendBegin(MAIN_ADMIN_ID, name)
  \/ \E n \in 1..MaxTasks, ok \in BOOLEAN : SuspendFinish(n, ok)
  \/ InTurn /\ \E name \in GivenNames : UnsuspendBegin(MAIN_ADMIN_ID, name)
  \/ \E n \in 1..MaxTasks, ok \in BOOLEAN : UnsuspendFinish(n, ok)
  \/ InTurn /\ \E name \in GivenNames : RestartBegin(MAIN_ADMIN_ID, name)
  \/ \E n \in 1..MaxTasks, ok \in BOOLEAN : RestartFinish(n, ok)
  \/ InTurn /\ \E name \in GivenNames : MigrateBegin(MAIN_ADMIN_ID, name)
  \/ \E n \in 1..MaxTasks, k \in {0, 5} : MigrateFinish(n, k)
  \/ InTurn /\ \E name \in GivenNames :
       ResizeBegin(MAIN_ADMIN_ID, "resize-vps", name, 1, None, None)
  \/ \E n \in 1..MaxTasks, ok \in BOOLEAN : ResizeStopDone(n, ok)
  \/ \E n \in 1..MaxTasks, k \in 0..1 : ResizeSetDone(n, k)
  \/ \E n \in 1..MaxTasks, ok \in BOOLEAN : ResizeStartDone(n, ok)
  \/ InTurn /\ \E a \in Owners : ManageOwn(a)
  \/ InTurn /\ \E vi \in 1..MaxViews : SelectVps(vi, views[vi].user_id, 1)
  \/ InTurn /\ \E vi \in 1..MaxViews, action \in {"start", "stop"} :
       ViewStartStopBegin(vi, views[vi].user_id, action)
  \/ \E n \in 1..MaxTasks, ok \in BOOLEAN : ViewStartStopFinish(n, ok)
  \/ InTurn /\ \E vi \in 1..MaxViews : ReinstallRequest(vi, views[vi].user_id)
  \/ InTurn /\ \E ci \in 1..MaxViews : ConfirmBegin(ci)
  \/ \E n \in 1..MaxTasks, k \in {0, 6} : ConfirmFinish(n, k)
  \/ InTurn /\ StopAllRequest(MAIN_ADMIN_ID)
  \/ InTurn /\ \E ci \in 1..MaxViews : StopAllBegin(ci, MAIN_ADMIN_ID)
  \/ \E n \in 1..MaxTasks, ok \in BOOLEAN : StopAllFinish(n, ok)
  \/ InTurn /\ MonSweep
  \/ \E cpu \in Readings : MonSample(cpu, 50)
  \/ \E ok \in BOOLEAN : MonStopDone(ok)
  \/ \E sent \in BOOLEAN : MonNotify(sent)
  \/ InTurn /\ \E a \in Owners, u \in Guests : ShareUser(a, u, 1)
  \/ InTurn /\ \E a \in Owners, u \in Guests : RevokeShare(a, u, 1)
  \/ SaveData

SpecHistory == InitLoaded /\ [][NextHistory]_vars

\* C31: in every step, of whatever operation, the suspension_history a record
\* had before the step is a prefix of the one it has after it.
C31_HistoryAppendOnly ==
  [][\A x \in DOMAIN heap \cap DOMAIN heap' :
       LET old == heap[x].suspension_history
           new == heap'[x].suspension_history
       IN  Len(old) <= Len(new) /\ SubSeq(new, 1, Len(old)) = old]_vars

\* a record the monitor had suspended was unsuspended, suspended by the admin
\* and unsuspended again: its history has both entries, in that order
C31_Witness ==
  /\ ev.op = "unsuspend" /\ ev.out = "ok"
  /\ \E x \in ListOids(vps_data) :
       /\ heap[x].container_name = ev.name
       /\ Len(heap[x].suspension_history) = 2
       /\ heap[x].suspension_history[1].by = "UnixNodes Auto-System"
       /\ heap[x].suspension_history[2].by = MAIN_ADMIN_ID

\* ------------------------------------------------- suspended means halted

\* a gateway call for the container is awaited: by a command (execute_lxc of
\* a handler) or by the workload monitor (lines 391-397)
InFlight(name) ==
  \/ \E n \in 1..Len(tasks) : tasks[n].name = name
  \/ mon.pc \in {"sample", "stop"} /\ mon.name = name

\* C32: a record of the registry whose suspended flag is set, with no gateway
\* call for its container in flight, has its container halted in the runtime.
C32_SuspendedIsHalted ==
  \A x \in ListOids(vps_data) :
    heap[x].suspended /\ ~InFlight(heap[x].container_name)
      => heap[x].container_name \notin rt.running

\* ------------------------------------- suspended records and their owners

\* the calls of the step's outcome that name the container
CallsFor(name) == {i \in 1..Len(ev'.calls) : ev'.calls[i].name = name}

\* C33: a step of a start, stop or reinstall by an actor who is no admin
\* leaves every record whose suspended flag is set as it was and runs no
\* gateway call for its container.
C33_SuspendedDeniedUnlessAdmin ==
  [][\A x \in ListOids(vps_data) \cap DOMAIN heap' :
       (/\ heap[x].suspended
        /\ ev'.op \in {"start", "stop", "reinstall"}
        /\ ~IsAdmin(ev'.actor))
         => /\ heap'[x] = heap[x]
            /\ CallsFor(heap[x].container_name) = {}]_vars

\* ------------------------------------------------- suspend-vps refused

\* C34: suspend-vps issues lxc stop only for a record whose status is
\* 'running'; its refusal for another status runs no gateway call, starts
\* nothing and changes no record; when its lxc stop fails no record, no
\* history and no runtime state changes.
C34_SuspendRefusedOrFailed ==
  [][(ev'.op = "suspend" /\ ~(saving /\ ~saving')) =>
       LET f == FindVps(ev'.name)
       IN  /\ ev'.out = "pending" => f[2] # 0 /\ RecAt(f[1], f[2]).status = "running"
           /\ (f[2] # 0 /\ RecAt(f[1], f[2]).status # "running"
                 /\ tasks' = tasks)
                => ev'.out = "not-running"
           /\ ev'.out = "not-running"
                => /\ ev'.calls = <<>>
                   /\ UNCHANGED <<vps_data, vps_keys, rt, tasks, clock, saving>>
                   /\ \A x \in ListOids(vps_data) : heap'[x] = heap[x]
           /\ ev'.out = "failed"
                => /\ UNCHANGED <<vps_data, vps_keys, rt, clock, saving>>
                   /\ \A x \in ListOids(vps_data) : heap'[x] = heap[x]]_vars

\* a suspend-vps whose lxc stop failed, its record still running, and a
\* record that is not running for the refusal
C34_Witness ==
  /\ ev.op = "suspend"
  /\ ev.out = "failed"
  /\ LET f == FindVps(ev.name)
     IN  f[2] # 0 /\ RecAt(f[1], f[2]).status = "running"
  /\ \E x \in ListOids(vps_data) : heap[x].status = "suspended"

\* ------------------------------------------- the container of a shared view

\* C35: a start, stop or stats that the user of a shared view performs
\* through it is applied to the container the view was opened for, the
\* owner's vps_number-th.
C35_SharedActsOnItsContainer ==
  [][\A vi \in 1..Len(views) :
       (/\ views[vi].is_shared
        /\ views' = views
        /\ ev' # ev
        /\ ev'.op \in {"start", "stop", "stats"}
        /\ ev'.actor = views[vi].user_id
        /\ ev'.out \in {"pending", "ok"})
         => ev'.name = heap[views[vi].oid].container_name]_vars

\* ------------------------------------------- the record a delete removes

\* C36: the record that a delete-vps removes from the registry is the record
\* of the container whose lxc delete that command has run.
C36_DeleteRemovesItsRecord ==
  [][\A n \in 1..Len(tasks) :
       (/\ tasks[n].op = "delete"
        /\ ev'.op = "delete" /\ ev'.out \in {"ok", "removing-role"}
        /\ ev'.name = tasks[n].name
        /\ \/ tasks' = RemoveAt(tasks, n)
           \/ tasks' = [tasks EXCEPT ![n].op = "delete-role"])
         => \A x \in ListOids(vps_data) \ ListOids(vps_data') :
              heap[x].container_name = tasks[n].name]_vars

\* ------------------------------------------- the flag and the status agree

\* C37: when no command waits for a gateway call or a save and both monitors
\* are asleep, every record of the registry has its suspended flag set
\* exactly when its status is 'suspended'.
C37_FlagIffStatus ==
  Quiescent =>
    \A x \in ListOids(vps_data) :
      heap[x].suspended <=> heap[x].status = "suspended"

\* -------------------------------------------------------------- cpu-monitor
ControlActions == {"status", "enable", "disable", "other"}

\* cpu_monitor_control, lines 1569-1588, behind @is_admin(): enable and
\* disable write the global flag that the thread's while tests (line 229);
\* no thread is started here (the only Thread is made at lines 257-258)
CpuMonitorControl(actor, action) ==
  /\ LoopFree
  /\ IsAdmin(actor)
  /\ action \in ControlActions
  /\ cpu_monitor_active' =
       IF action = "enable" THEN TRUE
       ELSE IF action = "disable" THEN FALSE
       ELSE cpu_monitor_active
  /\ ev' = Event("cpu-monitor", actor,
                 IF action = "status"
                 THEN IF cpu_monitor_active THEN "active" ELSE "inactive"
                 ELSE IF action = "enable" THEN "enabled"
                 ELSE IF action = "disable" THEN "disabled"
                 ELSE "invalid",
                 NoName, <<>>)
  /\ UNCHANGED <<regVars, admin_data, files, rt, clock, tasks, viewVars, mon, host,
                 saving>>

NextControl ==
  \/ \E a \in Users, action \in ControlActions : CpuMonitorControl(a, action)
  \/ \E a \in Users : AdminCheckFails(a, "cpu-monitor")
  \/ \E cpu_usage \in Readings : HostSample(cpu_usage)
  \/ \E ok \in BOOLEAN : HostStopAll(ok)
  \/ HostMark
  \/ \E ok \in BOOLEAN : HostSave(ok)
  \/ \E user \in Guests : CreateBegin(MAIN_ADMIN_ID, 1, 1, 1, user)
  \/ \E n \in 1..MaxTasks, k \in {0, 5} : CreateFinish(n, k)
  \/ SaveData

SpecControl == InitLoaded /\ [][NextControl]_vars

\* C38: whenever the monitor-enabled flag is true the host monitor is in its
\* sampling loop: its thread has not ended, so that after the next sleep it
\* reads the host's usage and a breach stops the fleet.
C38_EnabledMeansSampling == cpu_monitor_active => host.pc # "dead"

\* ------------------------------- a container that stays above a threshold
\* The workload monitor where every reading is above the CPU threshold and
\* lxc stop succeeds whenever the runtime can carry it out, beside deletes and
\* a create that fails after it has added the user's key: the commands that
\* change the keys and the lists under the sweep, finitely often.
MonHotStep ==
  \/ MonSweep
  \/ MonSample(95, 50)
  \/ \E ok \in BOOLEAN :
       /\ ~ok => ~CanComplete(rt, Call("stop", mon.name), mon.pre)
       /\ MonStopDone(ok)
  \/ \E sent \in BOOLEAN : MonNotify(sent)

NextHot ==
  \/ MonHotStep
  \/ NoTasks /\ \E user \in Owners, i \in 1..MaxVps : DeleteBegin(MAIN_ADMIN_ID, user, i)
  \/ \E n \in 1..MaxTasks, ok \in BOOLEAN, wait \in BOOLEAN : DeleteFinish(n, ok, wait)
  \/ \E n \in 1..MaxTasks, done \in BOOLEAN : DeleteRoleDone(n, done)
  \/ NoTasks /\ \E user \in Guests : CreateBegin(MAIN_ADMIN_ID, 1, 1, 1, user)
  \/ \E n \in 1..MaxTasks : CreateFinish(n, 0)
  \/ SaveData

SpecHot == InitLoaded /\ [][NextHot]_vars

\* vps_monitor is a task of the event loop: its sleep ends and its awaited
\* calls return, and the loop runs it again whenever no handler holds it;
\* save_data returns
SpecHotLive ==
  /\ SpecHot
  /\ SF_vars(MonHotStep)
  /\ WF_vars(SaveData)

LoadedNames == {ContainerName(o, i) : o \in Owners, i \in 1..MaxVps}

\* the records of the registry with the name
Named(name) == {x \in ListOids(vps_data) : heap[x].container_name = name}

\* C39: a container whose record is running and not suspended, with every
\* reading above the threshold and lxc stop succeeding, is eventually
\* suspended by the workload monitor, unless its record has left the registry.
C39_HotIsSuspended ==
  \A name \in LoadedNames :
    (\E x \in Named(name) : heap[x].status = "running" /\ ~heap[x].suspended)
      ~> (\/ Named(name) = {}
          \/ \E x \in Named(name) :
               /\ heap[x].suspended /\ heap[x].status = "suspended"
               /\ name \notin rt.running)

\* the monitor has suspended a container in a registry to which a create has
\* added a key since the start
C39_Witness ==
  /\ Len(vps_keys) > Cardinality(Owners)
  /\ ev.op = "monitor" /\ ev.out = "suspended"
  /\ \E x \in Named(ev.name) :
       /\ heap[x].suspended
       /\ Len(heap[x].suspension_history) > 0

\* ------------------------------------------- the run state after a resize

\* C40: an add-resources or resize-vps that ends with success leaves the
\* container in the run state it had when the command began: a record that
\* was running and not suspended is running again, its container started by
\* the command's lxc start; any other record keeps its status and its
\* suspended flag, and its container is not started.
C40_RunStateKept ==
  [][/\ \A n \in 1..Len(tasks) :
          (/\ tasks[n].op \in ResizeOps
           /\ tasks' = RemoveAt(tasks, n)
           /\ ev'.op = tasks[n].op /\ ev'.out = "ok"
           /\ tasks[n].oid \in DOMAIN heap')
            => LET t == tasks[n]
                   old == t.was
                   new == heap'[t.oid]
                   starts == {i \in 1..Len(ev'.calls) : ev'.calls[i].verb = "start"}
               IN  IF old.status = "running" /\ ~old.suspended
                   THEN /\ new.status = "running" /\ ~new.suspended
                        /\ t.name \in rt'.running
                        /\ starts # {}
                   ELSE /\ new.status = old.status
                        /\ new.suspended = old.suspended
                        /\ t.name \in rt'.running <=> t.name \in rt.running
                        /\ starts = {}
     /\ (ev' # ev /\ tasks' = tasks /\ ev'.op \in ResizeOps /\ ev'.out = "ok")
          => /\ rt' = rt
             /\ \A x \in ListOids(vps_data) :
                  /\ heap'[x].status = heap[x].status
                  /\ heap'[x].suspended = heap[x].suspended]_vars

\* a resize of a running container has ended with success: new limits in the
\* runtime, the container started again
C40_Witness ==
  /\ ev.op \in ResizeOps /\ ev.out = "ok"
  /\ ev.calls = <<Call("start", ev.name)>>
  /\ ev.name \in rt.running
  /\ LimitsOf(rt, ev.name).mem = MaxTotal * 1024
  /\ \E x \in Named(ev.name) : heap[x].status = "running" /\ heap[x].ram = <<MaxTotal, "GB">>

====
